---- MODULE Spec2Model ----
(***************************************************************************)
(* hugo-reader: the validated response cache (internal/cache) and the     *)
(* ordered multi-candidate endpoint loops of the query tools (taxonomies, *)
(* terms, content, search, discovery) that use it.                        *)
(*                                                                         *)
(* Time is counted in minutes.  A response body is named by a string; Doc *)
(* gives the JSON document the name stands for, reduced to the features   *)
(* the validators of the tools inspect with gjson.                        *)
(***************************************************************************)
EXTENDS Integers, Sequences, FiniteSets, TLC

VARIABLES
    entries,    \* Cache.entries: key -> CacheEntry (domain = the stored keys)
    now,        \* the wall clock read by time.Now / time.Since
    origin,     \* the site: URL -> body served with 200 (URLs outside fail)
    run,        \* the tool request being executed (position in its loops)
    trace,      \* cache and fetch calls made by the request being executed
    ret,        \* what the call that has just returned gave back (forgotten
                \* once time passes)
    prior,      \* the response to the preceding request, while the request
                \* being executed repeats it (history)
    own,        \* the caches the tools made for themselves: tool -> entries
    mutex,      \* Cache.mutex: the goroutine holding the write lock, and the
                \* goroutines holding a read lock
    calls,      \* the cache call each goroutine is executing (concurrent use)
    heap        \* the byte slices of a caller of the cache and of the cache,
                \* where slices are told apart from their contents (SpecAlias)

vars == <<entries, now, origin, run, trace, ret, prior, own, mutex, calls, heap>>

----------------------------------------------------------------------------
\* Bounds of the model.

\* The clock stops advancing here.
MaxTime == 6

\* Cache.defaultTTL of the server's shared cache, in minutes.
DefaultTTL == 5

\* Amounts by which the clock advances between two tool requests: long enough
\* for the cached entries to expire.  (The cache operations are also run with
\* a clock that advances minute by minute, see SpecCache.)
TickSteps == {DefaultTTL + 1}

----------------------------------------------------------------------------
\* JSON documents.  keys: the names present at the root object; arrays and
\* objects: the root names whose value is an array, an object; taxonomies: the
\* shape of the root field "taxonomies"; pages: the elements of the root array
\* "pages", each as the set of its field names; array: the length of the
\* document when its root is an array, -1 otherwise; results: the length of
\* the root array "results"; matching: the pages whose title contains the
\* query "go"; sections: the number of different sections its pages name;
\* locs: the number of lines with a <loc> element; size: len(body).

Doc(b) ==
    CASE b = "garbage" ->   \* not JSON
            [valid |-> FALSE, array |-> -1, keys |-> {}, arrays |-> {}, objects |-> {},
             taxonomies |-> "absent", pages |-> <<>>, results |-> 0, matching |-> {},
             sections |-> 0, locs |-> 0, size |-> 9]
      [] b = "taxmap" ->    \* {"taxonomies":{"tags":"tags"}}
            [valid |-> TRUE, array |-> -1, keys |-> {"taxonomies"}, arrays |-> {},
             objects |-> {"taxonomies"}, taxonomies |-> "object", pages |-> <<>>,
             results |-> 0, matching |-> {},
             sections |-> 0, locs |-> 0, size |-> 28]
      [] b = "taxlist" ->   \* {"taxonomies":[{"name":"go","count":1}]}
            [valid |-> TRUE, array |-> -1, keys |-> {"taxonomies"},
             arrays |-> {"taxonomies"}, objects |-> {}, taxonomies |-> "array",
             pages |-> <<>>, results |-> 0, matching |-> {},
             sections |-> 0, locs |-> 0, size |-> 40]
      [] b = "plain" ->     \* {"pages":[{"title":"t"}]}
            [valid |-> TRUE, array |-> -1, keys |-> {"pages"}, arrays |-> {"pages"},
             objects |-> {}, taxonomies |-> "absent", pages |-> <<{"title"}>>,
             results |-> 0, matching |-> {},
             sections |-> 0, locs |-> 0, size |-> 25]
      [] b = "tagged" ->    \* {"pages":[{"title":"t"},{"tags":["x"],"summary":"s"}]}
            [valid |-> TRUE, array |-> -1, keys |-> {"pages"}, arrays |-> {"pages"},
             objects |-> {}, taxonomies |-> "absent",
             pages |-> <<{"title"}, {"tags", "summary"}>>, results |-> 0, matching |-> {},
             sections |-> 0, locs |-> 0, size |-> 54]
      [] b = "hits" ->      \* {"results":[{"title":"t","url":"/a/"}]}
            [valid |-> TRUE, array |-> -1, keys |-> {"results"}, arrays |-> {"results"},
             objects |-> {}, taxonomies |-> "absent", pages |-> <<>>, results |-> 1, matching |-> {},
             sections |-> 0, locs |-> 0, size |-> 39]
      [] b = "page" ->      \* {"title":"t","content":"c"}
            [valid |-> TRUE, array |-> -1, keys |-> {"title", "content"}, arrays |-> {},
             objects |-> {}, taxonomies |-> "absent", pages |-> <<>>, results |-> 0, matching |-> {},
             sections |-> 0, locs |-> 0, size |-> 27]
      [] b = "manyhits" ->  \* {"results":[{"title":"a"},{"title":"b"},{"title":"c"}]}
            [valid |-> TRUE, array |-> -1, keys |-> {"results"}, arrays |-> {"results"},
             objects |-> {}, taxonomies |-> "absent", pages |-> <<>>,
             results |-> 3, matching |-> {},
             sections |-> 0, locs |-> 0, size |-> 57]
      [] b = "posts" ->     \* {"pages":[{"title":"go one","section":"posts"},
                            \*           {"title":"about","section":"about"},
                            \*           {"title":"on go","section":"notes"}]}
            [valid |-> TRUE, array |-> -1, keys |-> {"pages"}, arrays |-> {"pages"},
             objects |-> {}, taxonomies |-> "absent",
             pages |-> <<{"title", "section"}, {"title", "section"}, {"title", "section"}>>,
             results |-> 0, matching |-> {1, 3},
             sections |-> 3, locs |-> 0, size |-> 121]
      [] b = "sitemap" ->   \* XML with three lines <loc>https://example.com/..</loc>
            [valid |-> FALSE, array |-> -1, keys |-> {}, arrays |-> {}, objects |-> {},
             taxonomies |-> "absent", pages |-> <<>>,
             results |-> 0, matching |-> {},
             sections |-> 0, locs |-> 3, size |-> 160]
      [] OTHER ->           \* no body, or an error page: not JSON
            [valid |-> FALSE, array |-> -1, keys |-> {}, arrays |-> {}, objects |-> {},
             taxonomies |-> "absent", pages |-> <<>>, results |-> 0, matching |-> {},
             sections |-> 0, locs |-> 0, size |-> 0]

Bodies == {"garbage", "taxmap", "taxlist", "plain", "tagged", "hits", "page"}

\* gjson: parsed.Get(name).Exists() at the root.
Has(d, name) == name \in d.keys

\* gjson: Exists() && IsArray(), Exists() && IsObject() of a root field.
IsArray(d, name) == name \in d.arrays
IsObject(d, name) == name \in d.objects

\* The ForEach loops over pages that look for one of the fields in names.
AnyPageHas(d, names) ==
    \E n \in 1..Len(d.pages) : d.pages[n] \cap names # {}

\* taxonomies.validateTaxonomyStructure
validateTaxonomyStructure(b) ==
    LET d == Doc(b) IN
    IF ~d.valid THEN FALSE
    ELSE IF IsObject(d, "taxonomies")
         THEN d.taxonomies = "object"
         ELSE Cardinality({t \in {"categories", "tags", "series", "authors", "topics"} :
                              Has(d, t)}) > 0

\* taxonomies.validateHugoIndex
validateHugoIndex(b) ==
    LET d == Doc(b) IN
    IF ~d.valid THEN FALSE
    ELSE IF IsArray(d, "pages")
         THEN AnyPageHas(d, {"taxonomies", "categories", "tags"})
         ELSE validateTaxonomyStructure(b)

\* The test applied to an individual taxonomy endpoint: valid JSON whose
\* "taxonomies" field is an array.
looksLikeTaxonomy(b) ==
    LET d == Doc(b) IN
    d.valid /\ IsArray(d, "taxonomies")

\* terms.validateTermsStructure, for the taxonomy name tax.
validateTermsStructure(b, tax) ==
    LET d == Doc(b) IN
    IF ~d.valid THEN FALSE
    ELSE IF Has(d, "terms") THEN IsArray(d, "terms") \/ IsObject(d, "terms")
    ELSE IF Has(d, tax) THEN IsArray(d, tax) \/ IsObject(d, tax)
    ELSE IF IsArray(d, "taxonomies") /\ d.taxonomies = "array" THEN TRUE
    ELSE IF IsArray(d, "pages") THEN AnyPageHas(d, {tax})
    ELSE FALSE

\* terms.validateHugoIndexForTerms
validateHugoIndexForTerms(b, tax) ==
    LET d == Doc(b) IN
    IF ~d.valid THEN FALSE
    ELSE IF IsArray(d, "pages") THEN AnyPageHas(d, {tax})
    ELSE Has(d, tax)

\* search.validateSearchResults
validateSearchResults(b) ==
    LET d == Doc(b) IN
    IF ~d.valid THEN FALSE
    ELSE IF IsArray(d, "results") THEN TRUE
    ELSE IF IsArray(d, "hits") THEN TRUE
    ELSE d.array >= 0

\* search.validateHugoIndexForSearch
validateHugoIndexForSearch(b) ==
    LET d == Doc(b) IN
    IF ~d.valid THEN FALSE
    ELSE IF IsArray(d, "pages") THEN Len(d.pages) > 0
    ELSE d.array > 0

\* content.validateContentStructure
validateContentStructure(b) ==
    LET d == Doc(b) IN
    IF ~d.valid THEN FALSE
    ELSE Cardinality({f \in {"title", "content", "body", "summary", "date", "slug", "url"} :
                         Has(d, f)}) >= 2

\* content.validateHugoIndexForContent
validateHugoIndexForContent(b) ==
    LET d == Doc(b) IN
    IF ~d.valid THEN FALSE
    ELSE IF IsArray(d, "pages") THEN AnyPageHas(d, {"content", "body", "summary"})
    ELSE validateContentStructure(b)

\* Dispatch of an EndpointConfig's validator field.
Validate(v, b, tax) ==
    CASE v = "validateTaxonomyStructure"   -> validateTaxonomyStructure(b)
      [] v = "validateHugoIndex"           -> validateHugoIndex(b)
      [] v = "validateTermsStructure"      -> validateTermsStructure(b, tax)
      [] v = "validateHugoIndexForTerms"   -> validateHugoIndexForTerms(b, tax)
      [] v = "validateSearchResults"       -> validateSearchResults(b)
      [] v = "validateHugoIndexForSearch"  -> validateHugoIndexForSearch(b)
      [] v = "validateContentStructure"    -> validateContentStructure(b)
      [] v = "validateHugoIndexForContent" -> validateHugoIndexForContent(b)
      [] v = "looksLikeTaxonomy"           -> looksLikeTaxonomy(b)

----------------------------------------------------------------------------
\* The cache (internal/cache/cache.go).

\* CacheEntry.IsExpired at clock value t: time.Since(e.CachedAt) > e.TTL.
IsExpired(e, t) == t - e.CachedAt > e.TTL

\* The names of the query parameters the tools use, in the order sort.Strings
\* gives them.
ParamOrder == <<"include", "limit", "path", "q", "query", "search", "taxonomy", "type">>

\* strings.Join(paramPairs, "&") over the sorted names of params (a map).
RECURSIVE JoinPairs(_, _)
JoinPairs(params, n) ==
    IF n > Len(ParamOrder) THEN ""
    ELSE LET k == ParamOrder[n]
             rest == JoinPairs(params, n + 1)
         IN  IF k \notin DOMAIN params THEN rest
             ELSE k \o "=" \o params[k] \o (IF rest = "" THEN "" ELSE "&" \o rest)

\* The orders in which a range loop can visit the keys of a Go map.
Orders(S) ==
    {o \in [1..Cardinality(S) -> S] : \A m, n \in DOMAIN o : m # n => o[m] # o[n]}

\* The length above which BuildKey replaces a key by its digest.
KeyLimit == 200

\* A string of n characters.
RECURSIVE Filler(_)
Filler(n) ==
    IF n = 0 THEN ""
    ELSE LET half == Filler(n \div 2)
         IN  half \o half \o (IF n % 2 = 1 THEN "a" ELSE "")

\* Base identities longer than KeyLimit: a URL with a long host name, a name
\* without a scheme, and a text url.Parse rejects.
LongHostURL == "https://" \o Filler(KeyLimit) \o ".example.com"
LongName == "site-" \o Filler(KeyLimit)
LongBad == "://" \o Filler(KeyLimit)

\* url.Parse of the base identities in use: err tells that it fails.
ParseURL(baseURL) ==
    LET U(err, scheme, host, path) ==
            [err |-> err, scheme |-> scheme, host |-> host, path |-> path, rawquery |-> ""]
    IN  CASE baseURL = "https://example.com" -> U(FALSE, "https", "example.com", "")
          [] baseURL = "https://example.com/blog" -> U(FALSE, "https", "example.com", "/blog")
          [] baseURL = "not-a-url" -> U(FALSE, "", "", "not-a-url")
          [] baseURL = "" -> U(FALSE, "", "", "")
          [] baseURL = LongHostURL -> U(FALSE, "https", Filler(KeyLimit) \o ".example.com", "")
          [] baseURL = LongName -> U(FALSE, "", "", LongName)
          [] OTHER -> U(TRUE, "", "", "")

\* The paths in use that do not begin with "/".
RelativePaths == {"index.json"}

\* URL.String for a URL without user and opaque part.
URLString(u) ==
    (IF u.scheme # "" THEN u.scheme \o ":" ELSE "")
    \o (IF u.host # "" THEN "//" \o u.host ELSE "")
    \o (IF u.path # "" /\ u.host # "" /\ u.path \in RelativePaths THEN "/" ELSE "")
    \o u.path
    \o (IF u.rawquery # "" THEN "?" \o u.rawquery ELSE "")

\* The place of a parameter name in the order of sort.Strings.
Rank(k) == CHOOSE n \in DOMAIN ParamOrder : ParamOrder[n] = k

\* A variant of SortStrings that leaves the names as they come.
SortStrings_unsorted(keys) == keys

\* sort.Strings(keys)
RECURSIVE SortStrings(_)
SortStrings(keys) ==
    IF keys = <<>> THEN <<>>
    ELSE LET h == Head(keys)
             rest == SortStrings(Tail(keys))
             Before(x) == Rank(x) < Rank(h)
             NotBefore(x) == ~Before(x)
         IN  SelectSeq(rest, Before) \o <<h>> \o SelectSeq(rest, NotBefore)

\* strings.Join(paramPairs, "&") for the names in keys.
RECURSIVE JoinKeys(_, _, _)
JoinKeys(params, keys, n) ==
    IF n > Len(keys) THEN ""
    ELSE keys[n] \o "=" \o params[keys[n]]
         \o (IF n < Len(keys) THEN "&" \o JoinKeys(params, keys, n + 1) ELSE "")

\* The decimal digits of n.
RECURSIVE Decimal(_)
Decimal(n) ==
    LET d == <<"0", "1", "2", "3", "4", "5", "6", "7", "8", "9">>[(n % 10) + 1]
    IN  IF n < 10 THEN d ELSE Decimal(n \div 10) \o d

\* fmt.Sprintf("%x", md5.Sum(key)): 32 hexadecimal digits.  The digest is
\* modelled by its width; of the key it keeps the length only.
RECURSIVE Zeros(_)
Zeros(n) == IF n = 0 THEN "" ELSE "0" \o Zeros(n - 1)
MD5Hex(key) == Zeros(32 - Len(Decimal(Len(key)))) \o Decimal(Len(key))

\* A variant of BuildKeyRange that has no fallback for a base it cannot use.
BuildKeyRange_strict(baseURL, endpoint, params, order) ==
    URLString([ParseURL(baseURL) EXCEPT !.path = endpoint])

\* Cache.BuildKey when the range loop over params visits the names in the
\* given order.
BuildKeyRange(baseURL, endpoint, params, order) ==
    LET u == ParseURL(baseURL) IN
    IF u.err THEN baseURL \o endpoint
    ELSE IF u.host = "" /\ u.path # "" THEN baseURL \o endpoint
    ELSE LET keys == SortStrings(order)
             query == IF DOMAIN params # {} THEN JoinKeys(params, keys, 1)
                      ELSE u.rawquery
             key == URLString([u EXCEPT !.path = endpoint, !.rawquery = query])
         IN  IF Len(key) > KeyLimit THEN "hash:" \o MD5Hex(key) ELSE key

\* Cache.BuildKey
BuildKey(baseURL, endpoint, params) ==
    BuildKeyRange(baseURL, endpoint, params,
                  CHOOSE order \in Orders(DOMAIN params) : TRUE)

\* A variant of GetFound that never finds an entry.
GetFound_miss(es, key, t) == FALSE

\* Cache.Get: the payload and the found flag.
GetFound(es, key, t) == key \in DOMAIN es /\ ~IsExpired(es[key], t)
GetData(es, key, t) == IF GetFound(es, key, t) THEN es[key].Data ELSE "nil"

\* A variant of Delete that removes the other entries as well.
Delete_all(es, key) == <<>>

\* Cache.Delete: the entries afterwards.
Delete(es, key) == [k \in DOMAIN es \ {key} |-> es[k]]

\* A variant of GetEntries that leaves an expired entry in place.
GetEntries_keep(es, key, t) == es

\* Cache.Get: the entries afterwards (an expired entry is deleted).
GetEntries(es, key, t) ==
    IF key \in DOMAIN es /\ IsExpired(es[key], t) THEN Delete(es, key) ELSE es

\* A variant of Set that stores nothing.
Set_drop(es, key, data, etag, lastModified, t) == es

\* A variant of Set that stores the payload without the response's validators.
Set_untagged(es, key, data, etag, lastModified, t) ==
    [k \in DOMAIN es \cup {key} |->
        IF k = key
        THEN [Data |-> data, ETag |-> "", LastModified |-> "",
              CachedAt |-> t, TTL |-> DefaultTTL]
        ELSE es[k]]

\* A variant of Set that leaves the age of an entry it replaces as it was.
Set_aged(es, key, data, etag, lastModified, t) ==
    [k \in DOMAIN es \cup {key} |->
        IF k = key
        THEN [Data |-> data, ETag |-> etag, LastModified |-> lastModified,
              CachedAt |-> IF key \in DOMAIN es THEN es[key].CachedAt ELSE t,
              TTL |-> DefaultTTL]
        ELSE es[k]]

\* Cache.Set: the entries afterwards.
Set(es, key, data, etag, lastModified, t) ==
    [k \in DOMAIN es \cup {key} |->
        IF k = key
        THEN [Data |-> data, ETag |-> etag, LastModified |-> lastModified,
              CachedAt |-> t, TTL |-> DefaultTTL]
        ELSE es[k]]

\* A variant of Clear that removes nothing.
Clear_kept(es) == es

\* Cache.Clear: the entries afterwards.
Clear(es) == <<>>

\* The answers to Validate's HEAD request: a transport error, 304, another status.
HeadOutcomes == {"error", "304", "200"}

\* Cache.Validate: the entry object e, which Validate holds, gets a new
\* CachedAt.  An entry object is known by its contents: the map entry and the
\* pointers other goroutines hold are the same object when they are equal to e.
Touch(es, key, e, t) ==
    IF key \in DOMAIN es /\ es[key] = e THEN [es EXCEPT ![key].CachedAt = t] ELSE es

\* Cache.Validate: whether it sends the conditional request; the found flag,
\* the payload and the entries afterwards, given the answer to the request.
ValidateAsks(es, key, t) == key \in DOMAIN es /\ IsExpired(es[key], t)
ValidateFound(es, key, t, outcome) ==
    key \in DOMAIN es /\ (IsExpired(es[key], t) => outcome \in {"error", "304"})
ValidateData(es, key, t, outcome) ==
    IF ValidateFound(es, key, t, outcome) THEN es[key].Data ELSE "nil"
ValidateEntries(es, key, t, outcome) ==
    IF ~ValidateAsks(es, key, t) \/ outcome = "error" THEN es
    ELSE IF outcome = "304" THEN Touch(es, key, es[key], t)
    ELSE Delete(es, key)

\* A variant of CleanExpired that removes every entry.
CleanExpired_all(es, t) == <<>>

\* Cache.CleanExpired: the expired keys, and the entries afterwards.
ExpiredKeys(es, t) == {k \in DOMAIN es : IsExpired(es[k], t)}
CleanExpired(es, t) == [k \in DOMAIN es \ ExpiredKeys(es, t) |-> es[k]]

\* Sum of len(entry.Data) over the entries.
RECURSIVE TotalSize(_)
TotalSize(es) ==
    IF DOMAIN es = {} THEN 0
    ELSE LET k == CHOOSE x \in DOMAIN es : TRUE
         IN  Doc(es[k].Data).size + TotalSize(Delete(es, k))

\* A variant of Stats that leaves the expired entries out of its totals.
Stats_live(es, t) ==
    [total_entries |-> Cardinality(DOMAIN es \ ExpiredKeys(es, t)),
     expired_entries |-> Cardinality(ExpiredKeys(es, t)),
     total_size |-> TotalSize(CleanExpired(es, t)),
     default_ttl |-> DefaultTTL]

\* Cache.Stats
Stats(es, t) ==
    [total_entries |-> Cardinality(DOMAIN es),
     expired_entries |-> Cardinality(ExpiredKeys(es, t)),
     total_size |-> TotalSize(es),
     default_ttl |-> DefaultTTL]

----------------------------------------------------------------------------
\* The requests of the model and the endpoint lists of the tools.

\* hugo_site_path of every request.
Site == "https://example.com"

\* EndpointConfig lists.  taxonomies.Execute: taxonomyEndpoints.
taxonomyEndpoints ==
    << [path |-> "/taxonomies/index.json", validator |-> "validateTaxonomyStructure"],
       [path |-> "/index.json", validator |-> "validateHugoIndex"],
       [path |-> "/api/taxonomies.json", validator |-> "validateTaxonomyStructure"] >>

\* taxonomies.Execute: individualTaxonomyEndpoints.
individualTaxonomyEndpoints ==
    << "/categories/index.json", "/tags/index.json", "/themes/index.json",
       "/methods/index.json", "/authors/index.json", "/series/index.json",
       "/topics/index.json" >>

\* terms.Execute: taxonomyEndpoints, for the requested taxonomy.
termsEndpoints(tax) ==
    << [path |-> "/taxonomies/" \o tax \o "/index.json", validator |-> "validateTermsStructure"],
       [path |-> "/" \o tax \o "/index.json", validator |-> "validateTermsStructure"],
       [path |-> "/api/taxonomies/" \o tax \o ".json", validator |-> "validateTermsStructure"],
       [path |-> "/index.json", validator |-> "validateHugoIndexForTerms"] >>

\* search.performHugoSearch: searchEndpoints, for the query.
searchEndpoints(query) ==
    << [path |-> "/search.json", params |-> [q |-> query], validator |-> "validateSearchResults"],
       [path |-> "/api/search.json", params |-> [query |-> query], validator |-> "validateSearchResults"],
       [path |-> "/search/index.json", params |-> [q |-> query], validator |-> "validateSearchResults"],
       [path |-> "/index.json", params |-> [search |-> query], validator |-> "validateHugoIndexForSearch"] >>

\* search.performContentScanSearch: contentEndpoints.
contentScanEndpoints ==
    << [path |-> "/index.json", validator |-> "validateHugoIndexForSearch"],
       [path |-> "/content/index.json", validator |-> "validateSearchResults"],
       [path |-> "/posts/index.json", validator |-> "validateSearchResults"],
       [path |-> "/api/content.json", validator |-> "validateSearchResults"],
       [path |-> "/all.json", validator |-> "validateSearchResults"],
       [path |-> "/site.json", validator |-> "validateSearchResults"] >>

\* content.getContentForPath: contentEndpoints, for the cleaned path.
contentEndpoints(cleanPath) ==
    << [path |-> "/" \o cleanPath \o ".json", validator |-> "validateContentStructure"],
       [path |-> "/" \o cleanPath \o "/index.json", validator |-> "validateContentStructure"],
       [path |-> "/content/" \o cleanPath \o ".json", validator |-> "validateContentStructure"],
       [path |-> "/content/" \o cleanPath \o "/index.json", validator |-> "validateContentStructure"],
       [path |-> "/index.json", validator |-> "validateHugoIndexForContent"] >>

\* The requests the model issues: tool and parameters (defaults applied by
\* Validate: search limit 20, content include "both" and limit 50).
Requests ==
    { [tool |-> "taxonomies", tax |-> "", query |-> "", paths |-> <<>>, limit |-> 0],
      [tool |-> "terms", tax |-> "tags", query |-> "", paths |-> <<>>, limit |-> 0],
      [tool |-> "search", tax |-> "", query |-> "go", paths |-> <<>>, limit |-> 20],
      [tool |-> "content", tax |-> "", query |-> "", paths |-> <<"about">>, limit |-> 50] }

\* Validate of a request's limit: 0 stands for the default, a limit outside
\* 1..max is refused (-1), any other limit is kept.
LimitOf(limit, default, max) ==
    IF limit = 0 THEN default
    ELSE IF limit < 1 \/ limit > max THEN -1
    ELSE limit

\* The limit Validate leaves in a search or content request, -1 when it
\* refuses the request.
Limit(req) == LimitOf(req.limit, IF req.tool = "search" THEN 20 ELSE 50, 100)

\* Requests as they arrive, with the limit the caller gave: a search, and a
\* bulk content retrieval of three paths.
RequestLimits == {-1, 0, 1, 2, 101}
BulkPaths == <<"about", "posts", "docs">>
LimitRequests ==
    { [tool |-> "search", tax |-> "", query |-> "go", paths |-> <<>>, limit |-> l] :
        l \in RequestLimits }
    \cup { [tool |-> "content", tax |-> "", query |-> "", paths |-> BulkPaths, limit |-> l] :
        l \in RequestLimits }

\* The loops of the requests among them that Validate accepts.
LimitLoops ==
    { <<[r EXCEPT !.limit = Limit(r)], ph, p>> :
        <<r, ph, p>> \in { <<r, ph, p>> \in LimitRequests \X {"main", "native", "scan"} \X (1..3) :
                             /\ Limit(r) # -1
                             /\ \/ r.tool = "search" /\ ph \in {"native", "scan"} /\ p = 1
                                \/ r.tool = "content" /\ ph = "main" /\ p \in DOMAIN r.paths } }

\* strconv.Itoa of a limit.
Itoa(n) == Decimal(n)

\* The candidates of the loop a request is in: for each endpoint the URL that
\* is fetched, the cache key, and the validator.
Candidates(tool, phase, req, p) ==
    CASE tool = "taxonomies" /\ phase = "main" ->
            [n \in 1..Len(taxonomyEndpoints) |->
                [url |-> Site \o taxonomyEndpoints[n].path,
                 key |-> BuildKey(Site, taxonomyEndpoints[n].path, <<>>),
                 validator |-> taxonomyEndpoints[n].validator]]
      [] tool = "taxonomies" /\ phase = "individual" ->
            [n \in 1..Len(individualTaxonomyEndpoints) |->
                [url |-> Site \o individualTaxonomyEndpoints[n],
                 key |-> BuildKey(Site, individualTaxonomyEndpoints[n], <<>>),
                 validator |-> "looksLikeTaxonomy"]]
      [] tool = "terms" ->
            LET eps == termsEndpoints(req.tax) IN
            [n \in 1..Len(eps) |->
                [url |-> Site \o eps[n].path,
                 key |-> BuildKey(Site, eps[n].path, [taxonomy |-> req.tax]),
                 validator |-> eps[n].validator]]
      [] tool = "search" /\ phase = "native" ->
            LET eps == searchEndpoints(req.query) IN
            [n \in 1..Len(eps) |->
                LET params == eps[n].params @@ [limit |-> Itoa(req.limit)] IN
                [url |-> Site \o eps[n].path \o "?" \o JoinPairs(params, 1),
                 key |-> BuildKey(Site, eps[n].path, params),
                 validator |-> eps[n].validator]]
      [] tool = "search" /\ phase = "scan" ->
            [n \in 1..Len(contentScanEndpoints) |->
                [url |-> Site \o contentScanEndpoints[n].path,
                 key |-> BuildKey(Site, contentScanEndpoints[n].path, <<>>),
                 validator |-> contentScanEndpoints[n].validator]]
      [] tool = "content" ->
            LET eps == contentEndpoints(req.paths[p]) IN
            [n \in 1..Len(eps) |->
                [url |-> Site \o eps[n].path,
                 key |-> BuildKey(Site, eps[n].path,
                                  [path |-> req.paths[p], include |-> "both"]),
                 validator |-> eps[n].validator]]

\* The first loop of a tool.
FirstPhase(tool) == IF tool = "search" THEN "native" ELSE "main"

\* Every URL and every cache key the requests of the model can touch.
Loops ==
    { <<r, ph, p>> \in Requests \X {"main", "individual", "native", "scan"} \X {1} :
        \/ ph = FirstPhase(r.tool)
        \/ r.tool = "taxonomies" /\ ph = "individual"
        \/ r.tool = "search" /\ ph = "scan" }
\* The candidate lists of the loops, computed once: \o and @@ make the lists
\* and the table explicit values, so a lookup computes no key again.
LoopCands ==
    [l \in Loops \cup LimitLoops |-> Candidates(l[1].tool, l[2], l[1], l[3]) \o <<>>] @@ <<>>
CandsOf(r) == LoopCands[<<r.req, r.phase, r.p>>]

AllURLs == UNION { {LoopCands[l][n].url : n \in DOMAIN LoopCands[l]} : l \in Loops }
AllKeys == UNION { {LoopCands[l][n].key : n \in DOMAIN LoopCands[l]} : l \in Loops }

----------------------------------------------------------------------------
\* Construction of the tools at server start-up (runServer, registerTools).

\* The tools that are given a cache, and the cache runServer creates.
QueryTools == {"taxonomies", "terms", "content", "search", "discovery"}
SharedCache == "cacheInstance"

\* New of a query tool: the tool starts with a cache of its own.
NewTool(tool) == [name |-> tool, log |-> "none", cache |-> "new:" \o tool]

\* The option WithLogger: it also replaces a cache the tool has by a new one.
WithLogger(t, logger) ==
    [t EXCEPT !.log = logger,
              !.cache = IF @ # "nil" THEN "logged:" \o t.name ELSE @]

\* A variant of WithCache that leaves the tool's cache as it is.
WithCache_ignored(t, c) == t

\* The option WithCache.
WithCache(t, c) == [t EXCEPT !.cache = c]

\* registerTools: the cache each tool holds once the server is set up.  The
\* cache manager is constructed with the cache as an argument.
registerTools ==
    [tool \in QueryTools \cup {"cache_manager"} |->
        IF tool = "cache_manager" THEN SharedCache
        ELSE WithCache(WithLogger(NewTool(tool), "logger"), SharedCache).cache]

\* The TTL each tool's New gives the cache it creates, in minutes.
ConfiguredTTL(tool) ==
    CASE tool = "search" -> 2
      [] tool = "discovery" -> 10
      [] OTHER -> 5

\* The entries of the cache the tool being executed holds, and their update.
Held == IF registerTools[run.tool] = SharedCache THEN entries ELSE own[run.tool]
Store(es) ==
    IF registerTools[run.tool] = SharedCache
    THEN entries' = es /\ own' = own
    ELSE own' = [own EXCEPT ![run.tool] = es] /\ entries' = entries

----------------------------------------------------------------------------
\* Concurrent calls on one cache: the goroutines and the state of the lock.

Procs == {"g1", "g2"}

\* No entry (a nil *CacheEntry).
NoEntry == [Data |-> "nil", ETag |-> "", LastModified |-> "", CachedAt |-> 0, TTL |-> 0]

\* A goroutine that executes no cache call.
NoCall == [op |-> "none", key |-> "", pc |-> "idle", exists |-> FALSE,
           entry |-> NoEntry, act |-> "none"]

Unlocked == [w |-> "none", r |-> {}]

----------------------------------------------------------------------------
\* The origin site and the HTTP fetch.

\* ETag and Last-Modified headers the origin sends with a body.
ETagOf(b) == IF b \in {"tagged", "hits", "page"} THEN "W/" \o b ELSE ""
LastModifiedOf(b) == IF b \in {"tagged", "taxmap", "plain"} THEN "Mon, 01 Jan 2024" ELSE ""

\* The outcomes of httpClient.Get(url) followed by io.ReadAll: a transport
\* error, a status other than 200, a failed body read, or 200 with a body.
FetchOutcomes(url) ==
    IF url \in DOMAIN origin
    THEN {[status |-> "ok", body |-> origin[url]]}
    ELSE {[status |-> st, body |-> "nil"] : st \in {"error", "http", "readerr"}}

----------------------------------------------------------------------------
\* Execution of a tool request.

NoRet ==
    [op |-> "none", ok |-> TRUE, data |-> "nil", endpoint |-> "", err |-> "",
     cause |-> "none", cached |-> FALSE, retrieved |-> 0, errors |-> 0,
     stats |-> <<>>, results |-> 0, limited |-> FALSE, fallback |-> FALSE]

Idle ==
    [tool |-> "none", req |-> <<>>, phase |-> "", p |-> 0, i |-> 0, pc |-> "idle",
     found |-> FALSE, data |-> "nil", used |-> "", cached |-> FALSE,
     discovered |-> {}, retrieved |-> 0, errors |-> 0, fallback |-> FALSE]

Cands == CandsOf(run)
Cand == Cands[run.i]

\* A call made for the current candidate: cache get, delete, set, or fetch.
Event(op) == [op |-> op, ph |-> run.phase, p |-> run.p, i |-> run.i, key |-> Cand.key]

\* The first-match loops: taxonomies (main endpoints), terms, content, native
\* search.  The content-scan loop and the individual taxonomy endpoints have
\* their own control flow.
InMatchLoop == run.phase \in {"main", "native"}

\* The request starts: Execute up to the first loop iteration.
Start(req) ==
    /\ run.pc = "idle"
    /\ run' = [Idle EXCEPT !.tool = req.tool, !.req = req,
                           !.phase = FirstPhase(req.tool), !.p = 1, !.i = 1,
                           !.pc = "lookup"]
    /\ trace' = <<>>
    /\ ret' = NoRet
    /\ prior' = IF ret.op = req.tool /\ ret.ok THEN ret ELSE NoRet
    /\ UNCHANGED <<entries, now, origin, own, mutex, calls, heap>>

\* A variant of Satisfied that goes on to the next path whatever the limit.
Satisfied_unlimited(r, data, used, cached) ==
    IF r.tool = "content" /\ r.p < Len(r.req.paths)
    THEN [r EXCEPT !.retrieved = @ + 1, !.p = @ + 1, !.i = 1, !.pc = "lookup",
                   !.found = TRUE, !.data = data, !.used = used, !.cached = cached]
    ELSE [r EXCEPT !.retrieved = IF r.tool = "content" THEN @ + 1 ELSE @, !.pc = "done",
                   !.found = TRUE, !.data = data, !.used = used, !.cached = cached]

\* A candidate of the loop satisfied the request (break / return).  For the
\* content tool the path is finished; Execute goes on with the next path.
Satisfied(r, data, used, cached) ==
    IF r.tool = "content"
    THEN IF r.p < Len(r.req.paths) /\ r.retrieved + 1 < r.req.limit
         THEN [r EXCEPT !.retrieved = @ + 1, !.p = @ + 1, !.i = 1, !.pc = "lookup",
                        !.found = TRUE, !.data = data, !.used = used, !.cached = cached]
         ELSE [r EXCEPT !.retrieved = @ + 1, !.pc = "done",
                        !.found = TRUE, !.data = data, !.used = used, !.cached = cached]
    ELSE [r EXCEPT !.pc = "done", !.found = TRUE, !.data = data, !.used = used,
                   !.cached = cached]

\* Variants of Advance with a plausible defect, for testing that the ordering
\* and error-handling properties depend on it: one jumps to the last candidate,
\* one gives up at the first rejected candidate.
Advance_skip(r) ==
    IF r.i < Len(CandsOf(r))
    THEN [r EXCEPT !.i = Len(CandsOf(r)), !.pc = "lookup"]
    ELSE [r EXCEPT !.pc = "done"]
Advance_stop(r) == [r EXCEPT !.pc = "done"]

\* The candidate was rejected (continue, or the end of the loop body): the next
\* candidate, or what follows the loop when it was the last one.
Advance(r) ==
    IF r.i < Len(CandsOf(r))
    THEN [r EXCEPT !.i = @ + 1, !.pc = "lookup"]
    ELSE CASE r.tool = "taxonomies" /\ r.phase = "main" ->
                 [r EXCEPT !.phase = "individual", !.i = 1, !.pc = "lookup"]
           [] r.tool = "taxonomies" /\ r.phase = "individual" ->
                 IF r.discovered # {}
                 THEN [r EXCEPT !.pc = "done", !.found = TRUE, !.data = "discovered",
                                !.used = "individual_discovery"]
                 ELSE [r EXCEPT !.pc = "done"]
           [] r.tool = "search" /\ r.phase = "native" ->
                 [r EXCEPT !.phase = "scan", !.i = 1, !.pc = "lookup",
                           !.fallback = TRUE]
           [] r.tool = "content" ->
                 IF r.p < Len(r.req.paths)
                 THEN [r EXCEPT !.errors = @ + 1, !.p = @ + 1, !.i = 1, !.pc = "lookup"]
                 ELSE [r EXCEPT !.errors = @ + 1, !.pc = "done"]
           [] OTHER -> [r EXCEPT !.pc = "done"]

\* First-match loops, "Check cache first": cache.Get, the validator on a hit,
\* cache.Delete when the cached data fails it.
CheckCache ==
    /\ run.pc = "lookup" /\ InMatchLoop
    /\ LET hit == GetFound(Held, Cand.key, now)
           data == GetData(Held, Cand.key, now)
           es == GetEntries(Held, Cand.key, now)
       IN  IF hit /\ Validate(Cand.validator, data, run.req.tax)
           THEN /\ Store(es)
                /\ run' = Satisfied(run, data, Cand.url, TRUE)
                /\ trace' = Append(trace, Event("get"))
           ELSE IF hit
           THEN /\ Store(Delete(es, Cand.key))
                /\ run' = [run EXCEPT !.pc = "fetch"]
                /\ trace' = trace \o <<Event("get"), Event("delete")>>
           ELSE /\ Store(es)
                /\ run' = [run EXCEPT !.pc = "fetch"]
                /\ trace' = Append(trace, Event("get"))
    /\ UNCHANGED <<now, origin, ret, prior, mutex, calls, heap>>

\* A variant of Accepted without the status check: whatever was read from a
\* response is taken, whether its status is 200 or not.
Accepted_anyStatus(c, r, tax) == r.status \in {"ok", "http"}

\* The outcome r of the fetch of candidate c is accepted: the GET succeeded
\* with status 200, the body was read, and it passes the validator of c.
Accepted(c, r, tax) == r.status = "ok" /\ Validate(c.validator, r.body, tax)

\* First-match loops, "Fetch from network": the GET, the body read, the
\* validator, cache.Set of the validated body.
FetchGot(r) ==
    /\ run.pc = "fetch" /\ InMatchLoop
    /\ r \in FetchOutcomes(Cand.url)
    /\ IF Accepted(Cand, r, run.req.tax)
       THEN /\ Store(Set(Held, Cand.key, r.body, ETagOf(r.body),
                          LastModifiedOf(r.body), now))
            /\ run' = Satisfied(run, r.body, Cand.url, FALSE)
            /\ trace' = trace \o <<Event("fetch"), Event("set")>>
       ELSE /\ UNCHANGED <<entries, own>>
            /\ run' = Advance(run)
            /\ trace' = Append(trace, Event("fetch"))
    /\ UNCHANGED <<now, origin, ret, prior, mutex, calls, heap>>

Fetch ==
    /\ run.pc = "fetch" /\ InMatchLoop
    /\ \E r \in FetchOutcomes(Cand.url) : FetchGot(r)

\* Content-scan loop, "Check cache first": a cached body that fails the
\* validator is deleted and the loop continues with the next endpoint.
ScanCheckCache ==
    /\ run.pc = "lookup" /\ run.phase = "scan"
    /\ LET hit == GetFound(Held, Cand.key, now)
           data == GetData(Held, Cand.key, now)
           es == GetEntries(Held, Cand.key, now)
       IN  IF hit /\ Validate(Cand.validator, data, run.req.tax)
           THEN /\ Store(es)
                /\ run' = Satisfied(run, data, Cand.url, TRUE)
                /\ trace' = Append(trace, Event("get"))
           ELSE IF hit
           THEN /\ Store(Delete(es, Cand.key))
                /\ run' = Advance(run)
                /\ trace' = trace \o <<Event("get"), Event("delete")>>
           ELSE /\ Store(es)
                /\ run' = [run EXCEPT !.pc = "fetch"]
                /\ trace' = Append(trace, Event("get"))
    /\ UNCHANGED <<now, origin, ret, prior, mutex, calls, heap>>

\* Content-scan loop, "Fetch from network".
ScanFetchGot(r) ==
    /\ run.pc = "fetch" /\ run.phase = "scan"
    /\ r \in FetchOutcomes(Cand.url)
    /\ IF Accepted(Cand, r, run.req.tax)
       THEN /\ Store(Set(Held, Cand.key, r.body, ETagOf(r.body),
                          LastModifiedOf(r.body), now))
            /\ run' = Satisfied(run, r.body, Cand.url, FALSE)
            /\ trace' = trace \o <<Event("fetch"), Event("set")>>
       ELSE /\ UNCHANGED <<entries, own>>
            /\ run' = Advance(run)
            /\ trace' = Append(trace, Event("fetch"))
    /\ UNCHANGED <<now, origin, ret, prior, mutex, calls, heap>>

ScanFetch ==
    /\ run.pc = "fetch" /\ run.phase = "scan"
    /\ \E r \in FetchOutcomes(Cand.url) : ScanFetchGot(r)

\* strings.TrimSuffix(strings.TrimPrefix(endpoint, "/"), "/index.json")
TaxonomyName(n) ==
    <<"categories", "tags", "themes", "methods", "authors", "series", "topics">>[n]

\* The responseData of an individual endpoint was obtained: it counts as a
\* discovered taxonomy when it looks like one.
Inspect(r, data) ==
    Advance(IF looksLikeTaxonomy(data)
            THEN [r EXCEPT !.discovered = @ \cup {TaxonomyName(r.i)}]
            ELSE r)

\* Individual taxonomy endpoints, "Check cache first".
IndividualCheckCache ==
    /\ run.pc = "lookup" /\ run.phase = "individual"
    /\ LET hit == GetFound(Held, Cand.key, now)
           data == GetData(Held, Cand.key, now)
       IN  /\ Store(GetEntries(Held, Cand.key, now))
           /\ run' = IF hit THEN Inspect(run, data) ELSE [run EXCEPT !.pc = "fetch"]
           /\ trace' = Append(trace, Event("get"))
    /\ UNCHANGED <<now, origin, ret, prior, mutex, calls, heap>>

\* Individual taxonomy endpoints, "Try fetching from network": a body read
\* with status 200 is stored in the cache, then inspected.
IndividualFetchGot(r) ==
    /\ run.pc = "fetch" /\ run.phase = "individual"
    /\ r \in FetchOutcomes(Cand.url)
    /\ IF r.status = "ok"
       THEN /\ Store(Set(Held, Cand.key, r.body, ETagOf(r.body),
                          LastModifiedOf(r.body), now))
            /\ run' = Inspect(run, r.body)
            /\ trace' = trace \o <<Event("fetch"), Event("set")>>
       ELSE /\ UNCHANGED <<entries, own>>
            /\ run' = Advance(run)
            /\ trace' = Append(trace, Event("fetch"))
    /\ UNCHANGED <<now, origin, ret, prior, mutex, calls, heap>>

IndividualFetch ==
    /\ run.pc = "fetch" /\ run.phase = "individual"
    /\ \E r \in FetchOutcomes(Cand.url) : IndividualFetchGot(r)

\* The error a tool returns when nothing was found.
NotFoundError(tool) ==
    CASE tool = "taxonomies" -> "no valid taxonomy data found at Hugo site"
      [] tool = "terms" -> "no valid taxonomy terms data found for taxonomy"
      [] tool = "search" -> "search failed: no content available for scanning"
      [] OTHER -> ""

\* taxonomies.formatTaxonomiesMap, the keys visited in the order given.
RECURSIVE JoinTaxonomies(_, _)
JoinTaxonomies(order, n) ==
    IF n > Len(order) THEN ""
    ELSE "\"" \o order[n] \o "\": \"" \o order[n] \o "\""
         \o (IF n < Len(order) THEN ", " \o JoinTaxonomies(order, n + 1) ELSE "")
formatTaxonomiesMap(order) == "{" \o JoinTaxonomies(order, 1) \o "}"

\* search.extractSearchResults: the number of results read from a body.
extractSearchResults(b) ==
    LET d == Doc(b) IN
    IF IsArray(d, "results") \/ IsArray(d, "hits") THEN d.results
    ELSE IF d.array >= 0 THEN d.array
    ELSE 0

\* search.performClientSideSearch: the number of items that match the query
\* (the requests of the model filter by no content type and no taxonomy).
performClientSideSearch(b) ==
    LET d == Doc(b) IN
    IF IsArray(d, "pages") \/ d.array >= 0 THEN Cardinality(d.matching) ELSE 0

\* search.Execute: the results of the phase that answered, before the limit
\* is applied.
SearchResults(r) ==
    IF r.phase = "scan" THEN performClientSideSearch(r.data)
    ELSE extractSearchResults(r.data)

\* A variant of ApplyLimit that returns every result.
ApplyLimit_uncut(n, limit) == [results |-> n, limited |-> FALSE]

\* search.Execute, "Apply limit": the results returned and the metadata field
\* limited.
ApplyLimit(n, limit) ==
    [results |-> IF n > limit THEN limit ELSE n, limited |-> n > limit]

\* What Execute returns for the finished request r: the response, or the
\* tool's error.  The payload of an individual discovery is written from a map,
\* in the order its keys happen to be visited.  cause is the fetch failure
\* wrapped into the error text, if any; cached tells whether the payload was
\* taken from the cache (the "cached" text of the responses is not modelled).
Response(r, order) ==
    [op |-> r.tool,
     ok |-> r.found \/ r.tool = "content",
     data |-> IF ~r.found THEN "nil"
              ELSE IF r.used = "individual_discovery" THEN formatTaxonomiesMap(order)
              ELSE r.data,
     endpoint |-> IF r.found THEN r.used ELSE "",
     err |-> IF r.found THEN ""
             ELSE IF r.tool = "content" THEN "content not found"
             ELSE NotFoundError(r.tool),
     cause |-> "none",
     cached |-> r.found /\ r.cached,
     retrieved |-> r.retrieved, errors |-> r.errors,
     stats |-> <<>>,
     results |-> IF r.found /\ r.tool = "search"
                 THEN ApplyLimit(SearchResults(r), r.req.limit).results ELSE 0,
     limited |-> r.found /\ r.tool = "search"
                 /\ ApplyLimit(SearchResults(r), r.req.limit).limited,
     fallback |-> r.found /\ r.fallback]

\* The request returns.
Finish ==
    /\ run.pc = "done"
    /\ \E order \in Orders(run.discovered) : ret' = Response(run, order)
    /\ run' = Idle
    /\ prior' = NoRet
    /\ UNCHANGED <<entries, now, origin, trace, own, mutex, calls, heap>>

\* The discovery tool (it never uses the cache).  discoverOverview probes four
\* endpoints and skips those that fail.
overviewEndpoints == <<"/index.json", "/api/index.json", "/sitemap.xml", "/robots.txt">>

DiscoveryTypes == {"overview", "sections", "pages", "sitemap"}

\* The document a discovery type reads: "index" or "sitemap", and its path.
DiscoverySource(dtype) == IF dtype = "sitemap" THEN "sitemap" ELSE "index"
DiscoveryPath(dtype) == IF dtype = "sitemap" THEN "/sitemap.xml" ELSE "/index.json"

\* The text of the error httpClient.Get or io.ReadAll returns.
TransportError(url) == "Get \"" \o url \o "\": dial tcp: connection refused"
ReadError == "unexpected EOF"

\* discoverSections, discoverPages, discoverSitemap: the error returned for the
\* outcome r of the one fetch, "" when there is none.
discoverError(dtype, url, r) ==
    LET src == DiscoverySource(dtype) IN
    CASE r.status = "error" -> "failed to fetch " \o src \o ": " \o TransportError(url)
      [] r.status = "http" -> src \o " not available (status: 404)"
      [] r.status = "readerr" -> "failed to read " \o src \o ": " \o ReadError
      [] r.status = "ok" /\ src = "index" /\ ~Doc(r.body).valid -> "invalid JSON in index"
      [] OTHER -> ""

\* The n-th GET of a discovery request.  No cache key is built for it.
DiscoveryFetch(n) == [op |-> "fetch", ph |-> "discovery", p |-> 1, i |-> n, key |-> ""]

\* discovery.Execute for the types that read one document.
DiscoverGot(dtype, r) ==
    /\ run.pc = "idle" /\ dtype \in DiscoveryTypes \ {"overview"}
    /\ r \in FetchOutcomes(Site \o DiscoveryPath(dtype))
    /\ LET e == discoverError(dtype, Site \o DiscoveryPath(dtype), r) IN
       ret' = [NoRet EXCEPT !.op = "discovery:" \o dtype,
                            !.ok = (e = ""),
                            !.data = IF e = "" THEN r.body ELSE "nil",
                            !.endpoint = IF e = "" THEN DiscoveryPath(dtype) ELSE "",
                            !.err = IF e = "" THEN "" ELSE "discovery failed: " \o e,
                            !.cause = IF r.status = "ok" THEN "none" ELSE r.status]
    /\ trace' = <<DiscoveryFetch(1)>>
    /\ prior' = IF ret.op = "discovery:" \o dtype /\ ret.ok THEN ret ELSE NoRet
    /\ UNCHANGED <<entries, now, origin, run, own, mutex, calls, heap>>

Discover ==
    /\ run.pc = "idle"
    /\ \E dtype \in DiscoveryTypes \ {"overview"} :
          \E r \in FetchOutcomes(Site \o DiscoveryPath(dtype)) : DiscoverGot(dtype, r)

\* discovery.Execute for the overview: it reports the endpoints that answered
\* with 200 and never fails.
DiscoverOverview ==
    /\ run.pc = "idle"
    /\ LET found == {n \in DOMAIN overviewEndpoints :
                        Site \o overviewEndpoints[n] \in DOMAIN origin}
       IN  ret' = [NoRet EXCEPT !.op = "discovery:overview",
                                !.data = "overview",
                                !.retrieved = Cardinality(found)]
    /\ trace' = [n \in DOMAIN overviewEndpoints |-> DiscoveryFetch(n)]
    /\ prior' = IF ret.op = "discovery:overview" THEN ret ELSE NoRet
    /\ UNCHANGED <<entries, now, origin, run, own, mutex, calls, heap>>

\* The cache manager tool: Validate and Execute of a request with the given
\* action and target.  A clear with a target clears everything as well.
ManagerActions == {"clear", "stats", "clean", "purge", ""}
OtherSite == "https://other.example.org"
ManagerTargets == {"", Site, OtherSite}

\* A variant of ManagerEntries that clears the cache whatever the action.
ManagerEntries_clear(action, es, t) == Clear(es)

\* The entries after Execute has dealt with the action.
ManagerEntries(action, es, t) ==
    CASE action = "clear" -> Clear(es)
      [] action = "clean" -> CleanExpired(es, t)
      [] OTHER -> es

Manage(action, target) ==
    /\ run.pc = "idle"
    /\ target # "" => action = "clear"
    /\ LET held == registerTools["cache_manager"] = SharedCache
           es == IF held THEN entries ELSE <<>>
           after == ManagerEntries(action, es, now)
       IN  /\ entries' = IF held THEN after ELSE entries
           /\ ret' = CASE action = "clear" ->
                            [NoRet EXCEPT !.op = "cache:clear", !.endpoint = target,
                                          !.data = IF target = "" THEN "clear_all"
                                                   ELSE "clear_targeted"]
                       [] action = "stats" ->
                            [NoRet EXCEPT !.op = "cache:stats", !.data = "stats",
                                          !.stats = Stats(es, now)]
                       [] action = "clean" ->
                            [NoRet EXCEPT !.op = "cache:clean", !.data = "clean",
                                          !.retrieved = Cardinality(ExpiredKeys(es, now))]
                       [] OTHER ->
                            [NoRet EXCEPT !.op = "cache:" \o action, !.ok = FALSE,
                                          !.err = "invalid action: " \o action
                                                  \o " (must be: clear, stats, or clean)"]
    /\ trace' = <<>>
    /\ prior' = NoRet
    /\ UNCHANGED <<now, origin, run, own, mutex, calls, heap>>

\* Execute of the cache manager with a request that is no ClearCacheRequest.
ManageOther ==
    /\ run.pc = "idle"
    /\ ret' = [NoRet EXCEPT !.op = "cache_manager", !.ok = FALSE,
                            !.err = "invalid request type: *cache.invalidRequest"]
    /\ trace' = <<>>
    /\ prior' = NoRet
    /\ UNCHANGED <<entries, now, origin, run, own, mutex, calls, heap>>

\* Time passes.
Tick ==
    /\ run.pc = "idle"
    /\ \E d \in TickSteps : now + d <= MaxTime /\ now' = now + d
    /\ ret' = NoRet
    /\ trace' = <<>>
    /\ UNCHANGED <<entries, origin, run, prior, own, mutex, calls, heap>>

\* The sites of the model: no URL answers with 200, or one URL does, or the
\* first two endpoints of one loop do; each with any of the bodies.
LivePairs == { {LoopCands[l][1].url, LoopCands[l][2].url} : l \in Loops }
Origins ==
    {<<>>}
    \cup { (u :> b) : u \in AllURLs \cup {Site \o "/sitemap.xml"}, b \in Bodies }
    \cup UNION { [L -> Bodies] : L \in LivePairs }

Init ==
    /\ entries = <<>>
    /\ now = 0
    /\ origin \in Origins
    /\ run = Idle
    /\ trace = <<>>
    /\ ret = NoRet
    /\ prior = NoRet
    /\ own = [t \in QueryTools |-> <<>>]
    /\ mutex = Unlocked
    /\ calls = [g \in Procs |-> NoCall]
    /\ heap = <<>>

Next ==
    \/ \E req \in Requests : Start(req)
    \/ CheckCache
    \/ Fetch
    \/ ScanCheckCache
    \/ ScanFetch
    \/ IndividualCheckCache
    \/ IndividualFetch
    \/ Finish
    \/ Discover
    \/ DiscoverOverview
    \/ \E action \in ManagerActions, target \in ManagerTargets : Manage(action, target)
    \/ ManageOther
    \/ Tick

Spec == Init /\ [][Next]_vars

----------------------------------------------------------------------------
\* The same request executed twice from the same cache contents at the same
\* clock value against the same site.  While a request is executed twice,
\* prior holds the cache contents the two executions start from (entries0)
\* and, once the first has ended, its response (first) and the cache contents
\* it left (entries1); stage tells which execution is under way (1, 2) or that
\* both have ended (3).

TwinStart(req) ==
    /\ run.pc = "idle"
    /\ run' = [Idle EXCEPT !.tool = req.tool, !.req = req,
                           !.phase = FirstPhase(req.tool), !.p = 1, !.i = 1,
                           !.pc = "lookup"]
    /\ trace' = <<>>
    /\ ret' = NoRet
    /\ prior' = [stage |-> 1, entries0 |-> entries, first |-> NoRet, entries1 |-> <<>>]
    /\ UNCHANGED <<entries, now, origin, own, mutex, calls, heap>>

\* The first execution returns; the cache is put back and the second begins.
TwinRerun ==
    /\ run.pc = "done" /\ prior.stage = 1
    /\ \E order \in Orders(run.discovered) :
          prior' = [stage |-> 2, entries0 |-> prior.entries0,
                    first |-> Response(run, order), entries1 |-> entries]
    /\ entries' = prior.entries0
    /\ run' = [Idle EXCEPT !.tool = run.tool, !.req = run.req,
                           !.phase = FirstPhase(run.tool), !.p = 1, !.i = 1,
                           !.pc = "lookup"]
    /\ trace' = <<>>
    /\ UNCHANGED <<now, origin, ret, own, mutex, calls, heap>>

\* The second execution returns.
TwinFinish ==
    /\ run.pc = "done" /\ prior.stage = 2
    /\ \E order \in Orders(run.discovered) : ret' = Response(run, order)
    /\ run' = Idle
    /\ prior' = [prior EXCEPT !.stage = 3]
    /\ UNCHANGED <<entries, now, origin, trace, own, mutex, calls, heap>>

NextTwin ==
    \/ \E req \in Requests : TwinStart(req)
    \/ CheckCache
    \/ Fetch
    \/ ScanCheckCache
    \/ ScanFetch
    \/ IndividualCheckCache
    \/ IndividualFetch
    \/ TwinRerun
    \/ TwinFinish
    \/ Tick

SpecTwin == Init /\ [][NextTwin]_vars

----------------------------------------------------------------------------
\* The cache operations called directly, as the cache tests and the cache
\* manager tool call them, with a clock that advances minute by minute.

CacheKeys == {BuildKey(Site, "/index.json", <<>>),
              BuildKey(Site, "/tags/index.json", [taxonomy |-> "tags"])}
CacheBodies == {"taxmap", "page"}

\* The call just made: the operation, its key, and the age of the entry the
\* call met under the key (-1 when there was none).
Call(op, key) ==
    [op |-> op, key |-> key,
     age |-> IF key \in DOMAIN entries THEN now - entries[key].CachedAt ELSE -1]

CacheSet(k, b) ==
    /\ entries' = Set(entries, k, b, ETagOf(b), LastModifiedOf(b), now)
    /\ ret' = [NoRet EXCEPT !.op = "set", !.endpoint = k]
    /\ trace' = <<Call("set", k)>>
    /\ UNCHANGED <<now, origin, run, prior, own, mutex, calls, heap>>

CacheGet(k) ==
    /\ entries' = GetEntries(entries, k, now)
    /\ ret' = [NoRet EXCEPT !.op = "get", !.endpoint = k,
                            !.ok = GetFound(entries, k, now),
                            !.data = GetData(entries, k, now)]
    /\ trace' = <<Call("get", k)>>
    /\ UNCHANGED <<now, origin, run, prior, own, mutex, calls, heap>>

CacheDelete(k) ==
    /\ entries' = Delete(entries, k)
    /\ ret' = [NoRet EXCEPT !.op = "delete", !.endpoint = k]
    /\ trace' = <<Call("delete", k)>>
    /\ UNCHANGED <<now, origin, run, prior, own, mutex, calls, heap>>

CacheClear ==
    /\ entries' = Clear(entries)
    /\ ret' = [NoRet EXCEPT !.op = "clear"]
    /\ trace' = <<[op |-> "clear", key |-> "", age |-> -1, met |-> DOMAIN entries]>>
    /\ UNCHANGED <<now, origin, run, prior, own, mutex, calls, heap>>

CacheCleanExpired ==
    /\ entries' = CleanExpired(entries, now)
    /\ ret' = [NoRet EXCEPT !.op = "cleanExpired",
                            !.retrieved = Cardinality(ExpiredKeys(entries, now))]
    /\ trace' = <<>>
    /\ UNCHANGED <<now, origin, run, prior, own, mutex, calls, heap>>

CacheStats ==
    /\ ret' = [NoRet EXCEPT !.op = "stats", !.stats = Stats(entries, now)]
    /\ trace' = <<>>
    /\ UNCHANGED <<entries, now, origin, run, prior, own, mutex, calls, heap>>

\* Cache.Validate(k, url) with the answer the origin gives to the conditional
\* request, should one be sent.
CacheValidate(k, outcome) ==
    /\ entries' = ValidateEntries(entries, k, now, outcome)
    /\ ret' = [NoRet EXCEPT !.op = "validate", !.endpoint = k,
                            !.ok = ValidateFound(entries, k, now, outcome),
                            !.data = ValidateData(entries, k, now, outcome),
                            !.cause = IF ValidateAsks(entries, k, now) THEN outcome
                                      ELSE "none"]
    /\ trace' = IF ValidateAsks(entries, k, now)
                THEN <<Call("validate", k), Call("head", k)>>
                ELSE <<Call("validate", k)>>
    /\ UNCHANGED <<now, origin, run, prior, own, mutex, calls, heap>>

\* A minute passes.
Elapse ==
    /\ now < MaxTime
    /\ now' = now + 1
    /\ ret' = NoRet
    /\ trace' = <<>>
    /\ UNCHANGED <<entries, origin, run, prior, own, mutex, calls, heap>>

InitCache ==
    /\ entries = <<>>
    /\ now = 0
    /\ origin = <<>>
    /\ run = Idle
    /\ trace = <<>>
    /\ ret = NoRet
    /\ prior = NoRet
    /\ own = [t \in QueryTools |-> <<>>]
    /\ mutex = Unlocked
    /\ calls = [g \in Procs |-> NoCall]
    /\ heap = <<>>

NextCache ==
    \/ \E k \in CacheKeys, b \in CacheBodies : CacheSet(k, b)
    \/ \E k \in CacheKeys : CacheGet(k)
    \/ \E k \in CacheKeys : CacheDelete(k)
    \/ CacheClear
    \/ CacheCleanExpired
    \/ CacheStats
    \/ \E k \in CacheKeys, outcome \in HeadOutcomes : CacheValidate(k, outcome)
    \/ Elapse

SpecCache == InitCache /\ [][NextCache]_vars

----------------------------------------------------------------------------
\* BuildKey called directly, as TestCache_BuildKey calls it, and then called
\* again with the same arguments.

KeyBases ==
    {Site, "https://example.com/blog", "not-a-url", "", "://bad",
     LongHostURL, LongName, LongBad}
KeyEndpoints == {"/index.json", "/search.json", "index.json", "/" \o Filler(KeyLimit)}
KeyParams == UNION { [S -> {"go", "10"}] : S \in SUBSET {"limit", "q", "type"} }

\* The arguments of a call, and the order in which its range loop visits params.
KeyCallOf(baseURL, endpoint, params, order) ==
    [op |-> "buildKey", baseURL |-> baseURL, endpoint |-> endpoint,
     params |-> params, order |-> order]

KeyCall(baseURL, endpoint, params, order) ==
    /\ trace = <<>>
    /\ trace' = <<KeyCallOf(baseURL, endpoint, params, order)>>
    /\ ret' = [NoRet EXCEPT !.op = "buildKey",
                            !.data = BuildKeyRange(baseURL, endpoint, params, order)]
    /\ prior' = NoRet
    /\ UNCHANGED <<entries, now, origin, run, own, mutex, calls, heap>>

\* The same call once more; the range loop may visit params in another order.
KeyRepeat(order) ==
    /\ trace # <<>> /\ prior = NoRet
    /\ order \in Orders(DOMAIN trace[1].params)
    /\ trace' = <<[trace[1] EXCEPT !.order = order]>>
    /\ ret' = [NoRet EXCEPT !.op = "buildKey",
                            !.data = BuildKeyRange(trace[1].baseURL, trace[1].endpoint,
                                                   trace[1].params, order)]
    /\ prior' = ret
    /\ UNCHANGED <<entries, now, origin, run, own, mutex, calls, heap>>

\* The test case is over.
KeyDone ==
    /\ prior # NoRet
    /\ trace' = <<>>
    /\ ret' = NoRet
    /\ prior' = NoRet
    /\ UNCHANGED <<entries, now, origin, run, own, mutex, calls, heap>>

NextKey ==
    \/ \E baseURL \in KeyBases, endpoint \in KeyEndpoints, params \in KeyParams :
          \E order \in Orders(DOMAIN params) : KeyCall(baseURL, endpoint, params, order)
    \/ \E order \in Orders({"limit", "q", "type"}) \cup Orders({"limit", "q"})
                    \cup Orders({"limit", "type"}) \cup Orders({"q", "type"})
                    \cup Orders({"limit"}) \cup Orders({"q"}) \cup Orders({"type"})
                    \cup Orders({}) : KeyRepeat(order)
    \/ KeyDone

SpecKey == InitCache /\ [][NextKey]_vars

----------------------------------------------------------------------------
\* The candidates of search.performHugoSearch for two search requests: the
\* URL each is fetched from and the cache key it is stored under.

\* url.QueryEscape of the parameter values in use.
QueryEscape(v) == IF v = "go&type=post" THEN "go%26type%3Dpost" ELSE v

\* url.Values.Encode: the pairs sorted by name, the values escaped.
Encode(params) ==
    JoinKeys([k \in DOMAIN params |-> QueryEscape(params[k])],
             SortStrings(CHOOSE order \in Orders(DOMAIN params) : TRUE), 1)

\* siteURL.ResolveReference(&url.URL{Path: path}) for an absolute path.
ResolveReference(site, path) ==
    URLString([ParseURL(site) EXCEPT !.path = path, !.rawquery = ""])

\* The sites, and the search requests (Query, ContentType, Limit).
ApartSites == {Site, "https://example.com/blog"}
ApartRequests ==
    { [query |-> q, ctype |-> c, limit |-> 20] :
        q \in {"go", "go&type=post"}, c \in {"", "post"} }

\* The parameters of endpoint n: those of the endpoint, then the filters.
SearchParams(req, n) ==
    searchEndpoints(req.query)[n].params
        @@ (IF req.ctype # "" THEN [type |-> req.ctype] ELSE <<>>)
        @@ [limit |-> Itoa(req.limit)]

\* Candidate n of the loop for a request to a site.
SearchCandidate(site, req, n) ==
    LET path == searchEndpoints(req.query)[n].path
        params == SearchParams(req, n)
    IN  [op |-> "candidate", baseURL |-> site, endpoint |-> path, params |-> params,
         url |-> ResolveReference(site, path) \o "?" \o Encode(params),
         key |-> BuildKey(site, path, params)]

\* A candidate of a request is computed; then a candidate of a second request.
ApartFirst(site, req, n) ==
    /\ trace = <<>>
    /\ trace' = <<SearchCandidate(site, req, n)>>
    /\ UNCHANGED <<entries, now, origin, run, ret, prior, own, mutex, calls, heap>>

ApartSecond(site, req, n) ==
    /\ Len(trace) = 1
    /\ trace' = Append(trace, SearchCandidate(site, req, n))
    /\ UNCHANGED <<entries, now, origin, run, ret, prior, own, mutex, calls, heap>>

ApartDone ==
    /\ Len(trace) = 2
    /\ trace' = <<>>
    /\ UNCHANGED <<entries, now, origin, run, ret, prior, own, mutex, calls, heap>>

NextApart ==
    \/ \E site \in ApartSites, req \in ApartRequests, n \in 1..4 : ApartFirst(site, req, n)
    \/ \E site \in ApartSites, req \in ApartRequests, n \in 1..4 : ApartSecond(site, req, n)
    \/ ApartDone

SpecApart == InitCache /\ [][NextApart]_vars

----------------------------------------------------------------------------
\* The cache called with byte slices that the caller goes on to change.  Here
\* a payload is a slice: the Data of an entry and the data of a return value
\* are places in heap, and heap gives the contents of each slice, who made it
\* (by) and whether the caller has a reference to it (held).

\* The number of slices made.
MaxBuffers == 4

\* make([]byte, n) followed by the writing of the contents.
NewSlice(h, bytes, by) == Append(h, [bytes |-> bytes, by |-> by, held |-> by = "caller"])

\* The caller makes a slice: data := []byte("...").
AliasMake(b) ==
    /\ Len(heap) < MaxBuffers
    /\ heap' = NewSlice(heap, b, "caller")
    /\ trace' = <<[op |-> "make", slice |-> Len(heap) + 1]>>
    /\ UNCHANGED <<entries, now, origin, run, ret, prior, own, mutex, calls>>

\* cache.Set(k, data, "", "") with a slice the caller holds: the entry gets a
\* slice of its own, and copy fills it.
AliasSet(k, a) ==
    /\ a \in DOMAIN heap /\ heap[a].held
    /\ Len(heap) < MaxBuffers
    /\ heap' = NewSlice(heap, heap[a].bytes, "cache")
    /\ entries' = Set(entries, k, Len(heap) + 1, "", "", now)
    /\ ret' = [NoRet EXCEPT !.op = "set", !.endpoint = k]
    /\ trace' = <<[op |-> "set", slice |-> a]>>
    /\ UNCHANGED <<now, origin, run, prior, own, mutex, calls>>

\* cache.Get(k): the caller receives entry.Data.
AliasGet(k) ==
    /\ entries' = GetEntries(entries, k, now)
    /\ ret' = [NoRet EXCEPT !.op = "get", !.endpoint = k,
                            !.ok = GetFound(entries, k, now),
                            !.data = GetData(entries, k, now)]
    /\ heap' = IF GetFound(entries, k, now)
               THEN [heap EXCEPT ![GetData(entries, k, now)].held = TRUE]
               ELSE heap
    /\ trace' = <<[op |-> "get", slice |-> IF GetFound(entries, k, now)
                                           THEN GetData(entries, k, now) ELSE 0]>>
    /\ UNCHANGED <<now, origin, run, prior, own, mutex, calls>>

\* The caller changes the bytes of a slice it holds.
AliasWrite(a, b) ==
    /\ a \in DOMAIN heap /\ heap[a].held /\ heap[a].bytes # b
    /\ heap' = [heap EXCEPT ![a].bytes = b]
    /\ trace' = <<[op |-> "write", slice |-> a]>>
    /\ UNCHANGED <<entries, now, origin, run, ret, prior, own, mutex, calls>>

NextAlias ==
    \/ \E b \in CacheBodies : AliasMake(b)
    \/ \E k \in CacheKeys, a \in 1..MaxBuffers : AliasSet(k, a)
    \/ \E k \in CacheKeys : AliasGet(k)
    \/ \E a \in 1..MaxBuffers, b \in CacheBodies : AliasWrite(a, b)

SpecAlias == InitCache /\ [][NextAlias]_vars

----------------------------------------------------------------------------
\* Requests with a limit, on a site whose documents hold several results.

\* Bodies with more than one result: pages, search results, sitemap lines.
LimitBodies == {"posts", "manyhits", "sitemap", "garbage"}

\* The limits a discovery request is made with.
DiscoveryLimits == {-1, 0, 1, 2, 200, 201}

\* discoverOverview: one result for every endpoint that answers with 200, a
\* JSON endpoint only when its body is valid JSON.  The limit is not looked at.
overviewResults ==
    Cardinality({n \in DOMAIN overviewEndpoints :
        /\ Site \o overviewEndpoints[n] \in DOMAIN origin
        /\ overviewEndpoints[n] \in {"/index.json", "/api/index.json"}
              => Doc(origin[Site \o overviewEndpoints[n]]).valid})

\* discoverSections, discoverPages, discoverSitemap: the number of results
\* made from the body with the limit lim.
discoverResults(dtype, b, lim) ==
    LET d == Doc(b)
        n == CASE dtype = "sections" -> IF IsArray(d, "pages") THEN d.sections ELSE 0
               [] dtype = "pages" -> IF IsArray(d, "pages") THEN Len(d.pages) ELSE 0
               [] OTHER -> d.locs
    IN  IF n >= lim THEN lim ELSE n

\* discovery.Execute of a request with the given type and limit.
DiscoverLimited(dtype, limit) ==
    /\ run.pc = "idle"
    /\ LET lim == LimitOf(limit, 50, 200)
           url == Site \o DiscoveryPath(dtype)
           op == "discovery:" \o dtype
       IN  IF lim = -1
           THEN /\ ret' = [NoRet EXCEPT !.op = op, !.ok = FALSE,
                                        !.err = "limit must be between 1 and 200"]
                /\ trace' = <<>>
           ELSE IF dtype = "overview"
           THEN /\ ret' = [NoRet EXCEPT !.op = op, !.data = "overview",
                                        !.results = overviewResults]
                /\ trace' = [n \in DOMAIN overviewEndpoints |-> DiscoveryFetch(n)]
           ELSE /\ \E r \in FetchOutcomes(url) :
                      LET e == discoverError(dtype, url, r)
                          n == discoverResults(dtype, r.body, lim)
                      IN  ret' = IF e # ""
                                 THEN [NoRet EXCEPT !.op = op, !.ok = FALSE,
                                                    !.err = "discovery failed: " \o e,
                                                    !.cause = r.status]
                                 ELSE [NoRet EXCEPT !.op = op, !.data = r.body,
                                                    !.endpoint = DiscoveryPath(dtype),
                                                    !.results = n,
                                                    !.limited = dtype # "sections" /\ n >= lim]
                /\ trace' = <<DiscoveryFetch(1)>>
    /\ prior' = NoRet
    /\ UNCHANGED <<entries, now, origin, run, own, mutex, calls, heap>>

\* Execute of a search or content request as it arrives: Validate, then the
\* first loop iteration, or the error of Validate.
Submit(req) ==
    IF Limit(req) = -1
    THEN /\ run.pc = "idle"
         /\ ret' = [NoRet EXCEPT !.op = req.tool, !.ok = FALSE,
                                 !.err = "limit must be between 1 and 100"]
         /\ trace' = <<>>
         /\ prior' = NoRet
         /\ UNCHANGED <<entries, now, origin, run, own, mutex, calls, heap>>
    ELSE Start([req EXCEPT !.limit = Limit(req)])

\* The sites: any of the documents read by the discovery tool may be there;
\* or the first native search endpoint answers; or any of the requested
\* paths has a page.
LimitOrigins ==
    UNION { [U -> LimitBodies] :
              U \in SUBSET {Site \o "/index.json", Site \o "/sitemap.xml", Site \o "/robots.txt"} }
    \cup { (LoopCands[l][1].url :> b) :
              l \in {l \in LimitLoops : l[2] = "native"}, b \in LimitBodies }
    \cup UNION { [{Site \o "/" \o BulkPaths[p] \o ".json" : p \in P} -> {"page"}] :
              P \in SUBSET DOMAIN BulkPaths }

InitLimit ==
    /\ entries = <<>>
    /\ now = 0
    /\ origin \in LimitOrigins
    /\ run = Idle
    /\ trace = <<>>
    /\ ret = NoRet
    /\ prior = NoRet
    /\ own = [t \in QueryTools |-> <<>>]
    /\ mutex = Unlocked
    /\ calls = [g \in Procs |-> NoCall]
    /\ heap = <<>>

NextLimit ==
    \/ \E dtype \in DiscoveryTypes, limit \in DiscoveryLimits : DiscoverLimited(dtype, limit)
    \/ \E req \in LimitRequests : Submit(req)
    \/ CheckCache
    \/ Fetch
    \/ ScanCheckCache
    \/ ScanFetch
    \/ Finish
    \/ Tick

SpecLimit == InitLimit /\ [][NextLimit]_vars

----------------------------------------------------------------------------
\* New of a query tool, option by option.  ret is the Tool as built so far,
\* trace the options applied to it.

\* The number of options a call of New is given.
MaxOptions == 3

\* The caches that are injected: the server's, or none.
InjectedCaches == {SharedCache, "nil"}

\* New begins: the Tool literal, before any option.
OptionNew(tool) ==
    /\ ret = NoRet
    /\ ret' = NewTool(tool)
    /\ trace' = <<>>
    /\ UNCHANGED <<entries, now, origin, run, prior, own, mutex, calls, heap>>

\* The next option is WithLogger.
OptionLogger ==
    /\ ret # NoRet /\ Len(trace) < MaxOptions
    /\ ret' = WithLogger(ret, "logger")
    /\ trace' = Append(trace, [op |-> "WithLogger", cache |-> ""])
    /\ UNCHANGED <<entries, now, origin, run, prior, own, mutex, calls, heap>>

\* The next option is WithCache(c).
OptionCache(c) ==
    /\ ret # NoRet /\ Len(trace) < MaxOptions
    /\ ret' = WithCache(ret, c)
    /\ trace' = Append(trace, [op |-> "WithCache", cache |-> c])
    /\ UNCHANGED <<entries, now, origin, run, prior, own, mutex, calls, heap>>

NextOptions ==
    \/ \E tool \in QueryTools : OptionNew(tool)
    \/ OptionLogger
    \/ \E c \in InjectedCaches : OptionCache(c)

SpecOptions == InitCache /\ [][NextOptions]_vars

----------------------------------------------------------------------------
\* The cache operations executed by two goroutines at once, statement by
\* statement, with the lock calls of cache.go.  A call is at one of: rlock
\* (about to call RLock), read (holds a read lock), check (lock released, the
\* entry pointer in hand), head (Validate's conditional request under way),
\* lock (Lock called, waiting), write (holds the write lock).

ConcKeys == {BuildKey(Site, "/index.json", <<>>)}
ConcOps == {"get", "set", "delete", "clear", "cleanExpired", "stats", "validate"}

\* sync.RWMutex: a read lock is granted when no writer holds the lock or
\* waits for it; the write lock when nobody holds the lock.
WriterWaiting == \E q \in Procs : calls[q].pc = "lock"
CanRLock == mutex.w = "none" /\ ~WriterWaiting
CanLock == mutex.w = "none" /\ mutex.r = {}

\* The call of g returns.
Return(g, op, key, ok, data) ==
    /\ calls' = [calls EXCEPT ![g] = NoCall]
    /\ ret' = [NoRet EXCEPT !.op = op, !.endpoint = key, !.ok = ok, !.data = data]

\* Goroutine g calls an operation.  Set builds its entry, stamped with the
\* current time, before it asks for the lock.
ConcCall(g, op, k, b) ==
    /\ calls[g].pc = "idle"
    /\ calls' = [calls EXCEPT ![g] =
          [op |-> op, key |-> IF op \in {"clear", "cleanExpired", "stats"} THEN "" ELSE k,
           pc |-> IF op \in {"get", "stats", "validate"} THEN "rlock" ELSE "lock",
           exists |-> FALSE,
           entry |-> IF op = "set"
                     THEN Set(<<>>, k, b, ETagOf(b), LastModifiedOf(b), now)[k]
                     ELSE NoEntry,
           act |-> IF op \in {"get", "stats", "validate"} THEN "none" ELSE op]]
    /\ UNCHANGED <<entries, now, origin, run, trace, ret, prior, own, mutex, heap>>

\* c.mutex.RLock() is granted.
ConcRLock(g) ==
    /\ calls[g].pc = "rlock" /\ CanRLock
    /\ mutex' = [mutex EXCEPT !.r = @ \cup {g}]
    /\ calls' = [calls EXCEPT ![g].pc = "read"]
    /\ UNCHANGED <<entries, now, origin, run, trace, ret, prior, own, heap>>

\* A variant of ConcRead in which Get and Validate keep the read lock while
\* they go on.
ConcRead_held(g) ==
    /\ calls[g].pc = "read"
    /\ mutex' = IF calls[g].op = "stats" THEN [mutex EXCEPT !.r = @ \ {g}] ELSE mutex
    /\ IF calls[g].op = "stats"
       THEN /\ calls' = [calls EXCEPT ![g] = NoCall]
            /\ ret' = [NoRet EXCEPT !.op = "stats", !.stats = Stats(entries, now)]
       ELSE /\ calls' = [calls EXCEPT
                  ![g].exists = calls[g].key \in DOMAIN entries,
                  ![g].entry = IF calls[g].key \in DOMAIN entries
                               THEN entries[calls[g].key] ELSE NoEntry,
                  ![g].pc = "check"]
            /\ ret' = ret
    /\ UNCHANGED <<entries, now, origin, run, trace, prior, own, heap>>

\* Under the read lock: Get and Validate read the map and unlock; Stats
\* computes its totals, unlocks and returns.
ConcRead(g) ==
    /\ calls[g].pc = "read"
    /\ mutex' = [mutex EXCEPT !.r = @ \ {g}]
    /\ IF calls[g].op = "stats"
       THEN /\ calls' = [calls EXCEPT ![g] = NoCall]
            /\ ret' = [NoRet EXCEPT !.op = "stats", !.stats = Stats(entries, now)]
       ELSE /\ calls' = [calls EXCEPT
                  ![g].exists = calls[g].key \in DOMAIN entries,
                  ![g].entry = IF calls[g].key \in DOMAIN entries
                               THEN entries[calls[g].key] ELSE NoEntry,
                  ![g].pc = "check"]
            /\ ret' = ret
    /\ UNCHANGED <<entries, now, origin, run, trace, prior, own, heap>>

\* After the unlock, Get and Validate: the miss, the expiry check on the
\* entry, the return of its Data.  An expired entry makes Get call Delete and
\* Validate send its conditional request.
ConcCheck(g) ==
    /\ calls[g].pc = "check"
    /\ LET c == calls[g] IN
       IF ~c.exists THEN Return(g, c.op, c.key, FALSE, "nil")
       ELSE IF ~IsExpired(c.entry, now) THEN Return(g, c.op, c.key, TRUE, c.entry.Data)
       ELSE /\ calls' = [calls EXCEPT ![g].pc = IF c.op = "get" THEN "lock" ELSE "head",
                                      ![g].act = IF c.op = "get" THEN "delete" ELSE "none"]
            /\ ret' = ret
    /\ UNCHANGED <<entries, now, origin, run, trace, prior, own, mutex, heap>>

\* Validate, the conditional request returned.
ConcHead(g, outcome) ==
    /\ calls[g].pc = "head" /\ outcome \in HeadOutcomes
    /\ IF outcome = "error"
       THEN Return(g, "validate", calls[g].key, TRUE, calls[g].entry.Data)
       ELSE /\ calls' = [calls EXCEPT ![g].pc = "lock",
                                      ![g].act = IF outcome = "304" THEN "touch" ELSE "delete"]
            /\ ret' = ret
    /\ UNCHANGED <<entries, now, origin, run, trace, prior, own, mutex, heap>>

\* c.mutex.Lock() is granted.
ConcLock(g) ==
    /\ calls[g].pc = "lock" /\ CanLock
    /\ mutex' = [mutex EXCEPT !.w = g]
    /\ calls' = [calls EXCEPT ![g].pc = "write"]
    /\ UNCHANGED <<entries, now, origin, run, trace, ret, prior, own, heap>>

\* Under the write lock: the statement of the operation, then the unlock and
\* the return.
ConcWrite(g) ==
    /\ calls[g].pc = "write"
    /\ mutex' = [mutex EXCEPT !.w = "none"]
    /\ LET c == calls[g] IN
       /\ entries' =
             CASE c.act = "set" ->
                    Set(entries, c.key, c.entry.Data, c.entry.ETag,
                        c.entry.LastModified, c.entry.CachedAt)
               [] c.act = "delete" -> Delete(entries, c.key)
               [] c.act = "clear" -> Clear(entries)
               [] c.act = "cleanExpired" -> CleanExpired(entries, now)
               [] c.act = "touch" -> Touch(entries, c.key, c.entry, now)
       /\ calls' = [q \in Procs |->
             IF q = g THEN NoCall
             ELSE IF c.act = "touch" /\ calls[q].exists /\ calls[q].key = c.key
                     /\ calls[q].entry = c.entry
             THEN [calls[q] EXCEPT !.entry.CachedAt = now]
             ELSE calls[q]]
       /\ ret' = [NoRet EXCEPT
             !.op = c.op, !.endpoint = c.key,
             !.ok = c.act \in {"set", "touch", "clear", "cleanExpired"}
                    \/ c.op = "delete",
             !.data = IF c.act = "touch" THEN c.entry.Data ELSE "nil",
             !.retrieved = IF c.act = "cleanExpired"
                           THEN Cardinality(ExpiredKeys(entries, now)) ELSE 0]
    /\ UNCHANGED <<now, origin, run, trace, prior, own, heap>>

\* Time passes, long enough for the entries to expire.
ConcElapse ==
    /\ \E d \in TickSteps : now + d <= MaxTime /\ now' = now + d
    /\ UNCHANGED <<entries, origin, run, trace, ret, prior, own, mutex, calls, heap>>

NextConc ==
    \/ \E g \in Procs, op \in ConcOps, k \in ConcKeys, b \in CacheBodies :
          ConcCall(g, op, k, b)
    \/ \E g \in Procs : ConcRLock(g)
    \/ \E g \in Procs : ConcRead(g)
    \/ \E g \in Procs : ConcCheck(g)
    \/ \E g \in Procs, outcome \in HeadOutcomes : ConcHead(g, outcome)
    \/ \E g \in Procs : ConcLock(g)
    \/ \E g \in Procs : ConcWrite(g)
    \/ ConcElapse

SpecConc == InitCache /\ [][NextConc]_vars

\* The steps of goroutine g that wait for nothing, and the concurrent calls
\* with a fair lock: a goroutine whose next statement is no lock call goes
\* on, and a goroutine that asks for the lock gets it if it can be granted
\* again and again.
ConcStep(g) ==
    \/ ConcRead(g)
    \/ ConcCheck(g)
    \/ \E outcome \in HeadOutcomes : ConcHead(g, outcome)
    \/ ConcWrite(g)

SpecFair ==
    /\ InitCache /\ [][NextConc]_vars
    /\ \A g \in Procs :
          WF_vars(ConcStep(g)) /\ SF_vars(ConcRLock(g)) /\ SF_vars(ConcLock(g))

----------------------------------------------------------------------------
\* Properties of the cache operations.

\* C1: whatever set, get, delete, clear, cleanExpired calls and clock advances
\* came before, get(key) reports found exactly when an entry for key exists
\* with now - cachedAt <= ttl, and then returns its data and leaves the cache
\* as it is; a get that meets an entry with now - cachedAt > ttl reports
\* not-found, and when it returns that entry is gone from the cache and from
\* the totals of stats, the other entries being untouched.
C1_GetHonoursTTL ==
    [][ \A k \in CacheKeys : CacheGet(k) =>
          LET live == k \in DOMAIN entries /\ now - entries[k].CachedAt <= entries[k].TTL
              stale == k \in DOMAIN entries /\ now - entries[k].CachedAt > entries[k].TTL
          IN  /\ ret'.ok <=> live
              /\ live => ret'.data = entries[k].Data /\ entries' = entries
              /\ stale =>
                    /\ ~ret'.ok /\ ret'.data = "nil"
                    /\ k \notin DOMAIN entries'
                    /\ \A o \in DOMAIN entries \ {k} :
                          o \in DOMAIN entries' /\ entries'[o] = entries[o]
                    /\ Stats(entries', now).total_entries
                          = Stats(entries, now).total_entries - 1
                    /\ Stats(entries', now).expired_entries
                          = Stats(entries, now).expired_entries - 1
                    /\ Stats(entries', now).total_size
                          = Stats(entries, now).total_size - Doc(entries[k].Data).size
    ]_vars

\* C1 witness: a get has just met an entry older than its TTL and reported
\* not-found; the entry is gone while another entry is still cached.
C1_Witness ==
    /\ ret.op = "get" /\ ~ret.ok
    /\ trace # <<>> /\ trace[1].op = "get" /\ trace[1].age > DefaultTTL
    /\ trace[1].key \notin DOMAIN entries
    /\ DOMAIN entries # {}

----------------------------------------------------------------------------
\* Properties of the candidate loops.

\* The loops that return the first candidate whose body passes its validator:
\* taxonomies (main endpoints), terms, content, native search, content scan.
InCandidateLoop == run.phase \in {"main", "native", "scan"}

\* The cache holds an entry under key that has not outlived its TTL.
Fresh(key) ==
    key \in DOMAIN entries /\ now - entries[key].CachedAt <= entries[key].TTL

\* The current candidate is about to be looked up and the cache holds a fresh
\* entry under its key that passes (ValidHit), fails (InvalidHit) its validator.
ValidHit ==
    /\ run.pc = "lookup" /\ InCandidateLoop /\ Fresh(Cand.key)
    /\ Validate(Cand.validator, entries[Cand.key].Data, run.req.tax)
InvalidHit ==
    /\ run.pc = "lookup" /\ InCandidateLoop /\ Fresh(Cand.key)
    /\ ~Validate(Cand.validator, entries[Cand.key].Data, run.req.tax)

\* The candidates (by index) of loop ph of the current path for which tr holds
\* a call op.
Called(tr, op, ph) ==
    {tr[n].i : n \in {m \in DOMAIN tr : tr[m].op = op /\ tr[m].ph = ph /\ tr[m].p = run.p}}

\* The origin answers candidate j of loop ph with a body that passes j's validator.
LiveValid(req, ph, j) ==
    LET c == LoopCands[<<req, ph, 1>>][j] IN
    c.url \in DOMAIN origin /\ Validate(c.validator, origin[c.url], req.tax)

\* C2: in every candidate loop, when candidate k is reached while the cache
\* holds under its key an unexpired entry that passes its validator, the
\* resolution ends with that cached payload, the lookup is the only call made
\* for k, no fetch is made for k or a later candidate, and the payload is what
\* the operation returns.
C2_CacheHitShortCircuits ==
    [][ /\ ValidHit =>
            /\ run'.found /\ run'.cached /\ run'.pc = "done"
            /\ run'.data = entries[Cand.key].Data /\ run'.used = Cand.url
            /\ trace' = Append(trace, Event("get"))
            /\ \A j \in Called(trace', "fetch", run.phase) : j < run.i
        /\ run.pc = "done" /\ run.found /\ InCandidateLoop =>
            /\ trace' = trace
            /\ ret'.ok /\ ret'.data = run.data ]_vars

\* C2 witness: a resolution was satisfied from the cache at its second candidate.
C2_Witness ==
    run.pc = "done" /\ InCandidateLoop /\ run.found /\ run.cached /\ run.i = 2

\* C3: in every candidate loop, when the entry found under candidate i's key
\* fails i's validator, the entry is deleted and the next call is the fetch of
\* candidate i itself.
C3_InvalidEntryRefetched ==
    [][ InvalidHit =>
            /\ Cand.key \notin DOMAIN entries'
            /\ run'.pc = "fetch" /\ run'.i = run.i
            /\ run'.phase = run.phase /\ run'.p = run.p ]_vars

\* The place of a call in a resolution: loop, path, candidate, kind of call.
PhaseRank(ph) == IF ph \in {"main", "native"} THEN 1 ELSE 2
OpRank(op) == CASE op = "get" -> 1 [] op = "delete" -> 2 [] op = "fetch" -> 3 [] op = "set" -> 4
Precedes(e, f) ==
    LET a == <<PhaseRank(e.ph), e.p, e.i, OpRank(e.op)>>
        b == <<PhaseRank(f.ph), f.p, f.i, OpRank(f.op)>>
    IN  \E k \in 1..4 : a[k] < b[k] /\ \A l \in 1..(k - 1) : a[l] = b[l]

C5_ExhaustionLeavesNoEntry ==
    /\ run.pc = "done" /\ ~run.found =>
          \A n \in DOMAIN trace : trace[n].key \notin DOMAIN entries
    /\ ret.op \in {"taxonomies", "terms", "search"} /\ ~ret.ok =>
          /\ ret.err = NotFoundError(ret.op)
          /\ \A n \in DOMAIN trace : trace[n].key \notin DOMAIN entries

\* The candidates of the first loop of the request being executed.
FirstCands == LoopCands[<<run.req, FirstPhase(run.tool), 1>>]

\* The request being finished repeats, with no time passed and nothing done in
\* between, a request that was resolved by fetching its second candidate after
\* the fetch of its first candidate had failed.
Repeat ==
    /\ run.pc = "done"
    /\ prior.op = run.tool /\ prior.ok /\ ~prior.cached
    /\ prior.endpoint = FirstCands[2].url
    /\ FirstCands[1].url \notin DOMAIN origin

\* C6 (as amended): a body fetched and accepted for a candidate is in the cache
\* under that candidate's key; and the immediate repeat of a resolution that
\* was satisfied by fetching candidate 2 returns the same payload from the
\* cache under candidate 2's key, fetching again only candidate 1 (whose
\* failure was not cached) and storing nothing.
C6_RepeatServedFromCache ==
    /\ run.pc = "done" /\ run.found /\ ~run.cached /\ InCandidateLoop =>
          /\ Cand.key \in DOMAIN entries
          /\ entries[Cand.key].Data = run.data
    /\ Repeat =>
          /\ run.found /\ run.cached /\ run.i = 2 /\ run.phase = FirstPhase(run.tool)
          /\ run.data = prior.data /\ run.used = prior.endpoint
          /\ FirstCands[2].key \in DOMAIN entries
          /\ entries[FirstCands[2].key].Data = prior.data
          /\ Called(trace, "fetch", run.phase) = {1}
          /\ \A n \in DOMAIN trace : trace[n].op # "set"

\* C6 witness: the repeat of the scenario, begun on an empty cache, is done.
C6_Witness ==
    Repeat /\ run.cached /\ DOMAIN entries = {FirstCands[2].key}

\* C6 as stated: the immediate repeat returns the same payload from the cache
\* and makes no fetch call at all.
C6_RepeatMakesNoFetch ==
    Repeat =>
        /\ run.found /\ run.cached /\ run.data = prior.data
        /\ \A n \in DOMAIN trace : trace[n].op # "fetch"

\* C7: every entry a step writes into the cache is written by the fetch of the
\* current candidate, under its key, and holds a body that passes the check
\* applied to that candidate.
C7_OnlyValidatedBodiesStored ==
    [][ \A k \in DOMAIN entries' :
            (k \notin DOMAIN entries \/ entries'[k] # entries[k]) =>
                /\ run.pc = "fetch" /\ k = Cand.key
                /\ Validate(Cand.validator, entries'[k].Data, run.req.tax) ]_vars

\* The candidate loops of a tool.
CandidateLoops(tool) == IF tool = "search" THEN {"native", "scan"} ELSE {"main"}

\* C8: a fetch that fails (transport error, status other than 200, body read
\* error) leaves the cache and the caller's view unchanged and is followed by
\* the lookup of the next candidate, if there is one; and an operation one of
\* whose candidates is answered with a validating body ends successfully.
C8_FetchFailureNotTerminal ==
    [][ /\ run.pc = "fetch" /\ Cand.url \notin DOMAIN origin =>
            /\ entries' = entries /\ ret' = ret
            /\ trace' = Append(trace, Event("fetch"))
            /\ run.i < Len(Cands) =>
                  run' = [run EXCEPT !.i = run.i + 1, !.pc = "lookup"]
        /\ run'.pc = "done" =>
            \A ph \in CandidateLoops(run'.tool) :
                \A j \in DOMAIN LoopCands[<<run'.req, ph, 1>>] :
                    LiveValid(run'.req, ph, j) => run'.found ]_vars

\* C8 witness: the fetches of the first two candidates failed and the third
\* candidate's body was fetched and returned.
C8_Witness ==
    /\ run.pc = "done" /\ InCandidateLoop /\ run.found /\ ~run.cached /\ run.i = 3
    /\ Cands[1].url \notin DOMAIN origin /\ Cands[2].url \notin DOMAIN origin
    /\ Called(trace, "fetch", run.phase) = {1, 2, 3}

\* The errors that report the exhaustion of all candidates.
NotFoundErrors == {NotFoundError(t) : t \in {"taxonomies", "terms", "search"}}

\* C9: the only error an operation returns is the not-found outcome; the
\* failure of an individual fetch is never returned to the caller.
C9_OnlyNotFoundSurfaces ==
    ~ret.ok => ret.err \in NotFoundErrors /\ ret.cause = "none"

----------------------------------------------------------------------------
\* Termination of a resolution.

\* One step of a request under way: a cache lookup or a fetch that returned.
\* Every HTTP client of the tools has a timeout, so a fetch that was begun
\* returns, and Execute then runs on to the next statement.
Step ==
    \/ CheckCache
    \/ Fetch
    \/ ScanCheckCache
    \/ ScanFetch
    \/ IndividualCheckCache
    \/ IndividualFetch

\* The query tools alone (no discovery request, no cache management).
NextLive ==
    \/ \E req \in Requests : Start(req)
    \/ Step
    \/ Finish
    \/ Tick

SpecLive == Init /\ [][NextLive]_vars /\ WF_vars(Step)

\* A request is being resolved: a candidate is about to be looked up or fetched.
Resolving == run.pc \in {"lookup", "fetch"}

\* The number of calls op the trace holds for candidate i of loop ph, path p.
Count(tr, op, ph, p, i) ==
    Cardinality({n \in DOMAIN tr :
                    tr[n].op = op /\ tr[n].ph = ph /\ tr[n].p = p /\ tr[n].i = i})

\* The step satisfies the resolution of the current path with the current
\* candidate; the step ends the current candidate loop unsatisfied.
Satisfies == Resolving /\ InCandidateLoop /\ run'.used = Cand.url
Exhausts ==
    /\ Resolving /\ InCandidateLoop /\ run'.used # Cand.url
    /\ run'.pc = "done" \/ run'.phase # run.phase \/ run'.p # run.p

SetCalls == {n \in DOMAIN trace : trace[n].op = "set" /\ trace[n].p = run.p}

\* C12: a resolution that has ended made at most one fetch per candidate and
\* at most one cache set: exactly one, under the key of the candidate that
\* satisfied it, when the payload came from the network, and none when the
\* payload came from the cache or nothing was found.
C12_AtMostOneSet ==
    run.pc = "done" =>
        /\ \A n \in DOMAIN trace :
              Count(trace, "fetch", trace[n].ph, trace[n].p, trace[n].i) <= 1
        /\ Cardinality(SetCalls) <= 1
        /\ run.found /\ ~run.cached /\ run.used # "" /\ run.used = Cand.url =>
              \E n \in SetCalls : trace[n].key = Cand.key /\ trace[n].i = run.i
        /\ ~run.found \/ (run.used = Cand.url /\ run.cached) => SetCalls = {}

\* The origin answers the fetch of the current candidate with a body that
\* passes the candidate's validator.
FetchValidates ==
    /\ run.pc = "fetch" /\ InCandidateLoop
    /\ Cand.url \in DOMAIN origin
    /\ Validate(Cand.validator, origin[Cand.url], run.req.tax)

----------------------------------------------------------------------------
\* Properties of concurrent cache calls.

\* Goroutine g is about to read the entries map or a field of an entry of the
\* cache; goroutine g is inside a write-locked section.
ReadsCache(g) == calls[g].pc = "read" \/ (calls[g].pc = "check" /\ calls[g].exists)
Mutates(g) == calls[g].pc = "write"

\* C14: while a goroutine is inside the write-locked section of set, delete,
\* clear or cleanExpired no other goroutine reads or writes the cache, and
\* every read get and stats make of the cache, the expiry check and the read
\* of the entry's payload included, is made while no writer is active.
C14_ReadsExcludeWriters ==
    \A g, h \in Procs :
        g # h /\ Mutates(g) => ~Mutates(h) /\ ~ReadsCache(h)

\* C15: no operation of the cache sends a request to the origin.
C15_CacheMakesNoRequest ==
    \A n \in DOMAIN trace : trace[n].op # "head"

----------------------------------------------------------------------------
\* Properties of the server's wiring.

\* The keys under which the request that has just been executed stored an entry.
Written == {trace[n].key : n \in {m \in DOMAIN trace : trace[m].op = "set"}}

\* C16: once the server is set up, the five query tools and the cache manager
\* hold the one cache runServer created; so when a cache-manager request
\* follows a query request, the entries that request stored are in the
\* manager's cache, its stats action counts them and its clear action removes
\* them.
C16_OneSharedCache ==
    [][ \A action \in ManagerActions, target \in ManagerTargets :
          Manage(action, target) =>
            /\ \A t \in QueryTools : registerTools[t] = registerTools["cache_manager"]
            /\ Written \subseteq DOMAIN entries
            /\ action = "stats" =>
                  /\ ret'.stats.total_entries = Cardinality(DOMAIN entries)
                  /\ ret'.stats.total_entries >= Cardinality(Written)
                  /\ ret'.stats.total_size = TotalSize(entries)
            /\ action = "clear" =>
                  /\ \A k \in Written : k \notin DOMAIN entries'
                  /\ Stats(entries', now).total_entries = 0 ]_vars

\* C16 witness: the stats action has counted two entries that query requests
\* stored in the cache.
C16_Witness ==
    /\ ret.op = "cache:stats" /\ ret.stats.total_entries = 2
    /\ ret.stats.total_size > 0
    /\ Cardinality(DOMAIN entries) = 2

\* The discovery request that has just returned repeats the one before it,
\* which succeeded, with no time passed and nothing done in between.
DiscoveryRepeat ==
    /\ run.pc = "idle" /\ prior # NoRet
    /\ prior.op = ret.op /\ prior.ok
    /\ \E dtype \in DiscoveryTypes : ret.op = "discovery:" \o dtype

\* C17: every fetch of a query request, discovery included, comes after a
\* cache lookup for the same resource, and the immediate repeat of a
\* discovery request that succeeded makes no fetch.
C17_DiscoveryUsesCache ==
    /\ \A n \in DOMAIN trace :
          trace[n].op = "fetch" =>
              \E m \in 1..(n - 1) :
                  /\ trace[m].op = "get" /\ trace[m].ph = trace[n].ph
                  /\ trace[m].p = trace[n].p /\ trace[m].i = trace[n].i
    /\ DiscoveryRepeat => \A n \in DOMAIN trace : trace[n].op # "fetch"

----------------------------------------------------------------------------
\* Properties of BuildKey.

\* BuildKey has been called; the arguments of the call.
KeyBuilt == trace # <<>> /\ trace[1].op = "buildKey"
KeyArgs == trace[1]

\* C18: the key BuildKey returns is the same for every order in which the
\* parameters can be enumerated, and a call repeated with the same base,
\* path and parameters returns the same key again.
C18_KeyIgnoresParamOrder ==
    KeyBuilt =>
        /\ \A order \in Orders(DOMAIN KeyArgs.params) :
              BuildKeyRange(KeyArgs.baseURL, KeyArgs.endpoint, KeyArgs.params, order)
                  = ret.data
        /\ prior # NoRet => ret.data = prior.data

\* C18 witness: a call with three parameters was repeated with the parameters
\* enumerated in the reverse of their sorted order and gave the same key.
C18_Witness ==
    /\ KeyBuilt /\ prior # NoRet
    /\ KeyArgs.order = <<"type", "q", "limit">>
    /\ ret.data = "https://example.com/search.json?limit=10&q=go&type=go"
    /\ prior.data = ret.data

\* The base identity is not a URL BuildKey can use: url.Parse rejects it, or
\* finds no host in it.
Unusable(baseURL) ==
    \/ ParseURL(baseURL).err
    \/ ParseURL(baseURL).host = "" /\ ParseURL(baseURL).path # ""

\* C19: BuildKey always returns a key; for a base identity that does not
\* parse as a URL the key is the base identity followed by the path, and the
\* key serves as a cache key like any other.
C19_UnparseableBaseFallsBack ==
    KeyBuilt =>
        /\ ret.ok /\ ret.data # "nil"
        /\ Unusable(KeyArgs.baseURL) => ret.data = KeyArgs.baseURL \o KeyArgs.endpoint
        /\ GetFound(Set(entries, ret.data, "page", "", "", now), ret.data, now)
        /\ GetData(Set(entries, ret.data, "page", "", "", now), ret.data, now) = "page"

\* C19 witness: BuildKey was called with a base url.Parse rejects and with
\* parameters, and returned the base followed by the path.
C19_Witness ==
    /\ KeyBuilt /\ KeyArgs.baseURL = "://bad" /\ ParseURL(KeyArgs.baseURL).err
    /\ DOMAIN KeyArgs.params = {"q", "limit"}
    /\ ret.data = "://bad/index.json"

\* C20: no key BuildKey returns is longer than KeyLimit characters; a key
\* that would be longer is returned as "hash:" and 32 digits.
C20_KeyLengthBounded ==
    KeyBuilt =>
        /\ Len(ret.data) <= KeyLimit
        /\ Len(KeyArgs.baseURL) - Len(ParseURL(KeyArgs.baseURL).path)
                + Len(KeyArgs.endpoint) > KeyLimit =>
              Len(ret.data) = Len("hash:") + 32

----------------------------------------------------------------------------
\* Properties of the cache keys of the candidates.

\* Two candidates have been computed.
Compared == Len(trace) = 2 /\ trace[1].op = "candidate" /\ trace[2].op = "candidate"

\* key := u.String() of BuildKey, and whether BuildKey replaces it by its digest.
PlainKey(baseURL, endpoint, params) ==
    URLString([ParseURL(baseURL) EXCEPT
                  !.path = endpoint,
                  !.rawquery = IF DOMAIN params # {}
                               THEN JoinKeys(params, SortStrings(
                                        CHOOSE order \in Orders(DOMAIN params) : TRUE), 1)
                               ELSE @])
Hashed(c) ==
    ~Unusable(c.baseURL) /\ Len(PlainKey(c.baseURL, c.endpoint, c.params)) > KeyLimit

\* C21: two candidates that differ in the base identity, in the path, or in
\* the name or the value of a query parameter are fetched from different URLs
\* and get different cache keys, provided neither key is a digest.
C21_KeysKeepRequestsApart ==
    Compared =>
        LET a == trace[1]
            b == trace[2]
        IN  (<<a.baseURL, a.endpoint, a.params>> # <<b.baseURL, b.endpoint, b.params>>
             /\ ~Hashed(a) /\ ~Hashed(b))
                => a.url # b.url /\ a.key # b.key

----------------------------------------------------------------------------
\* Properties of the payloads.

\* The bytes a get of key k returns.
Payload(es, h, k) ==
    IF GetFound(es, k, now) THEN h[GetData(es, k, now)].bytes ELSE "nil"

\* C22: when the caller changes the bytes of a slice it holds, be it one it
\* passed to set or one a get returned, no key's get returns other bytes than
\* before.
C22_PayloadNeverAliased ==
    [][ (\E a \in 1..MaxBuffers, b \in CacheBodies : AliasWrite(a, b)) =>
           \A k \in CacheKeys : Payload(entries', heap', k) = Payload(entries, heap, k)
    ]_vars

\* C23: set(key, ...) replaces the entry of the key, expired or not: right
\* after it get(key) finds the new payload, the entry is stamped with the
\* time of the set and the default ttl, so that get finds it up to ttl later
\* and no longer after that, whatever the age of the entry replaced; the
\* other entries stay as they are, and the passing of time changes no entry.
C23_SetRestartsLifetime ==
    [][ /\ \A k \in CacheKeys, b \in CacheBodies : CacheSet(k, b) =>
              /\ GetFound(entries', k, now) /\ GetData(entries', k, now) = b
              /\ entries'[k].CachedAt = now /\ entries'[k].TTL = DefaultTTL
              /\ \A t \in now..(now + DefaultTTL) :
                    GetFound(entries', k, t) /\ GetData(entries', k, t) = b
              /\ ~GetFound(entries', k, now + DefaultTTL + 1)
              /\ \A o \in DOMAIN entries \ {k} :
                    o \in DOMAIN entries' /\ entries'[o] = entries[o]
        /\ Elapse => entries' = entries
    ]_vars

\* C23 witness: a set has just replaced an entry that had expired, and get
\* finds the new payload.
C23_Witness ==
    /\ ret.op = "set" /\ trace = <<[op |-> "set", key |-> ret.endpoint, age |-> DefaultTTL + 1]>>
    /\ GetFound(entries, ret.endpoint, now)
    /\ entries[ret.endpoint].CachedAt = now

\* C24: cleanExpired removes exactly the entries that are expired when it is
\* called and returns their number; every other entry stays as it is, field
\* for field; and when all entries were expired, stats reports no entry
\* afterwards.
C24_CleanExpiredExact ==
    [][ CacheCleanExpired =>
          LET expired == {k \in DOMAIN entries : now - entries[k].CachedAt > entries[k].TTL}
          IN  /\ DOMAIN entries' = DOMAIN entries \ expired
              /\ ret'.retrieved = Cardinality(expired)
              /\ \A k \in DOMAIN entries \ expired : entries'[k] = entries[k]
              /\ expired = DOMAIN entries =>
                    /\ Stats(entries', now).total_entries = 0
                    /\ Stats(entries', now).total_size = 0
    ]_vars

\* C24 witness: cleanExpired has just removed one entry, the expired one, and
\* left the live one.
C24_Witness ==
    /\ ret.op = "cleanExpired" /\ ret.retrieved = 1
    /\ Cardinality(DOMAIN entries) = 1
    /\ \A k \in DOMAIN entries : ~IsExpired(entries[k], now) /\ entries[k].CachedAt > 0

\* The bytes of the payloads among bs that the entries hold.
RECURSIVE BytesOf(_, _)
BytesOf(es, bs) ==
    IF bs = {} THEN 0
    ELSE LET b == CHOOSE x \in bs : TRUE
         IN  Doc(b).size * Cardinality({k \in DOMAIN es : es[k].Data = b})
                + BytesOf(es, bs \ {b})

\* C25: stats leaves the cache as it is; its total_entries is the number of
\* stored entries, the expired ones included, its expired_entries is the
\* number a cleanExpired called at once would remove and return, and its
\* total_size is the sum of the payload lengths of all stored entries.
C25_StatsSnapshot ==
    [][ CacheStats =>
          /\ entries' = entries
          /\ ret'.stats.total_entries = Cardinality(DOMAIN entries)
          /\ ret'.stats.expired_entries
                = Cardinality(DOMAIN entries) - Cardinality(DOMAIN CleanExpired(entries, now))
          /\ ret'.stats.expired_entries = Cardinality(ExpiredKeys(entries, now))
          /\ ret'.stats.total_size = BytesOf(entries, CacheBodies)
          /\ ret'.stats.default_ttl = DefaultTTL
    ]_vars

\* C25 witness: stats was called with two entries stored, one of them expired.
C25_Witness ==
    /\ ret.op = "stats"
    /\ ret.stats.total_entries = 2 /\ ret.stats.expired_entries = 1
    /\ ret.stats.total_size = Doc("taxmap").size + Doc("page").size
    /\ Cardinality(DOMAIN entries) = 2

\* C26: after clear the cache holds no entry: no get finds anything, and
\* stats reports zero entries and zero bytes; and as long as no set is made,
\* whatever else is called and however much time passes, it stays so.
C26_ClearEmpties ==
    [][ /\ CacheClear =>
              /\ DOMAIN entries' = {}
              /\ \A k \in CacheKeys : ~GetFound(entries', k, now) /\ GetData(entries', k, now) = "nil"
              /\ Stats(entries', now).total_entries = 0
              /\ Stats(entries', now).total_size = 0
        /\ (DOMAIN entries = {} /\ ~\E k \in CacheKeys, b \in CacheBodies : CacheSet(k, b)) =>
              /\ DOMAIN entries' = {}
              /\ ret'.op \in {"get", "validate"} => ~ret'.ok
              /\ ret'.op = "stats" =>
                    ret'.stats.total_entries = 0 /\ ret'.stats.total_size = 0
    ]_vars

\* C26 witness: clear has just removed two entries, a live one and an expired
\* one.
C26_Witness ==
    /\ ret.op = "clear" /\ entries = <<>>
    /\ trace # <<>> /\ trace[1].op = "clear" /\ trace[1].met = CacheKeys
    /\ now > DefaultTTL

\* C27: after delete(key) a get of the key finds nothing; the entries under
\* the other keys are as before; deleting a key that has no entry changes
\* nothing, so that a second delete of the same key changes nothing further.
C27_DeleteIdempotentLocal ==
    [][ \A k \in CacheKeys : CacheDelete(k) =>
          /\ k \notin DOMAIN entries'
          /\ ~GetFound(entries', k, now) /\ GetData(entries', k, now) = "nil"
          /\ DOMAIN entries' = DOMAIN entries \ {k}
          /\ \A o \in DOMAIN entries \ {k} : entries'[o] = entries[o]
          /\ k \notin DOMAIN entries => entries' = entries
          /\ Delete(entries', k) = entries'
    ]_vars

\* C27 witness: delete has just removed the entry of its key and another
\* key's entry is still stored.
C27_Witness ==
    /\ ret.op = "delete" /\ trace # <<>> /\ trace[1].op = "delete" /\ trace[1].age >= 0
    /\ ret.endpoint \notin DOMAIN entries
    /\ DOMAIN entries # {}

----------------------------------------------------------------------------
\* Properties of the entries the tools write.

\* C28: an entry written by a request has the ttl configured for its kind and
\* expires that long after it was written: 2 minutes for the entries of the
\* search operation, the 5-minute default for those of taxonomies, terms and
\* content.
C28_EntryTTLByKind ==
    \A n \in DOMAIN trace :
        (run.pc # "idle" /\ trace[n].op = "set" /\ trace[n].key \in DOMAIN Held) =>
            LET e == Held[trace[n].key] IN
            /\ e.TTL = ConfiguredTTL(run.tool)
            /\ ~IsExpired(e, e.CachedAt + ConfiguredTTL(run.tool))
            /\ IsExpired(e, e.CachedAt + ConfiguredTTL(run.tool) + 1)

----------------------------------------------------------------------------
\* Properties of the cache manager.

\* The site an entry belongs to: every key of the model is built from Site.
KeySite(key) == IF key \in AllKeys THEN Site ELSE ""

\* C29: a clear with a target site removes the entries of that site and
\* leaves the entries of the other sites as they are; a clear without a
\* target removes every entry.
C29_TargetedClearLocal ==
    [][ \A target \in ManagerTargets : Manage("clear", target) =>
          IF target = "" THEN DOMAIN entries' = {}
          ELSE /\ \A k \in DOMAIN entries :
                     KeySite(k) # target => k \in DOMAIN entries' /\ entries'[k] = entries[k]
               /\ \A k \in DOMAIN entries' : KeySite(k) # target
    ]_vars

\* C30: the cache manager carries out the actions clear, stats and clean and
\* no other: a request with another action, the empty one included, and a
\* request of another type get an error, and the cache stays as it was.
C30_OnlyKnownActions ==
    [][ /\ \A action \in ManagerActions, target \in ManagerTargets :
              Manage(action, target) =>
                 IF action \in {"clear", "stats", "clean"}
                 THEN /\ ret'.ok /\ ret'.err = ""
                      /\ action = "clear" => DOMAIN entries' = {}
                      /\ action = "stats" =>
                            entries' = entries /\ ret'.stats = Stats(entries, now)
                      /\ action = "clean" =>
                            /\ entries' = CleanExpired(entries, now)
                            /\ ret'.retrieved = Cardinality(ExpiredKeys(entries, now))
                 ELSE ~ret'.ok /\ ret'.err # "" /\ entries' = entries
        /\ ManageOther => ~ret'.ok /\ ret'.err # "" /\ entries' = entries
    ]_vars

\* C30 witness: a request with the empty action has just been refused while
\* the cache held an entry, which is still there.
C30_Witness ==
    /\ ret.op = "cache:" /\ ~ret.ok
    /\ ret.err = "invalid action:  (must be: clear, stats, or clean)"
    /\ DOMAIN entries # {}

----------------------------------------------------------------------------
\* Properties of the limits of the requests.

\* C31: a discovery request with limit 0 or a limit from 1 to 200 returns at
\* most limit results (50 when the limit is 0), whatever its discovery type;
\* with any other limit it is refused and nothing is fetched.
C31_DiscoveryWithinLimit ==
    [][ \A dtype \in DiscoveryTypes, limit \in DiscoveryLimits :
            DiscoverLimited(dtype, limit) =>
              IF limit \in 0..200
              THEN ret'.ok => ret'.results <= (IF limit = 0 THEN 50 ELSE limit)
              ELSE ~ret'.ok /\ trace' = <<>>
    ]_vars

----------------------------------------------------------------------------
\* Properties of the two phases of a search.

\* The URLs of the content-scan candidates of a search request.
ScanURLs(req) ==
    {LoopCands[<<req, "scan", 1>>][j].url : j \in DOMAIN LoopCands[<<req, "scan", 1>>]}

\* C33: a search enters the content-scan phase only from the last native
\* candidate, after each native candidate was looked up once, in list order,
\* and none was stored as validated; it fails only after the last
\* content-scan candidate, every candidate of both phases having been looked
\* up; and fallback_used is true exactly when the endpoint that answered is a
\* content-scan endpoint.
C33_ScanAfterNative ==
    [][ run.tool = "search" =>
          LET native == LoopCands[<<run.req, "native", 1>>]
              scan == LoopCands[<<run.req, "scan", 1>>]
          IN  /\ run'.tool = "search" /\ run'.phase = "scan" =>
                    /\ run.phase = "scan" \/ (run.phase = "native" /\ run.i = Len(native))
                    /\ \A j \in DOMAIN native :
                          /\ Count(trace', "get", "native", 1, j) = 1
                          /\ Count(trace', "set", "native", 1, j) = 0
                    /\ \A m, n \in DOMAIN trace' :
                          trace'[m].ph = "native" /\ trace'[n].ph = "native" /\ m < n
                              => trace'[m].i <= trace'[n].i
                    /\ \A m, n \in DOMAIN trace' :
                          trace'[m].ph = "scan" /\ trace'[n].ph = "native" => n < m
              /\ Finish /\ ~ret'.ok =>
                    /\ run.phase = "scan" /\ run.i = Len(scan)
                    /\ \A j \in DOMAIN native : Count(trace, "get", "native", 1, j) = 1
                    /\ \A j \in DOMAIN scan : Count(trace, "get", "scan", 1, j) = 1
              /\ Finish /\ ret'.ok =>
                    (ret'.fallback <=> ret'.endpoint \in ScanURLs(run.req))
    ]_vars

\* C33 witness: a search was answered by the second content-scan endpoint
\* after the four native candidates and the first content-scan candidate had
\* been rejected.
C33_Witness ==
    /\ ret.op = "search" /\ ret.ok /\ ret.fallback
    /\ ret.endpoint = Site \o "/content/index.json"
    /\ {4} \subseteq {trace[n].i : n \in {m \in DOMAIN trace : trace[m].ph = "native"}}
    /\ \E n \in DOMAIN trace : trace[n].ph = "scan" /\ trace[n].i = 1

----------------------------------------------------------------------------
\* Properties of bulk content retrieval.

\* C34: the paths of a content request are resolved one after another in the
\* order of the request; a path whose candidates are exhausted adds one to
\* the errors and the request goes on with the next path; nothing is looked
\* up once limit items were retrieved; and every response has
\* retrieved_count <= limit and retrieved_count + error_count <= the number
\* of requested paths.
C34_BulkInOrderWithinLimit ==
    [][ run.tool = "content" =>
          LET paths == run.req.paths IN
          /\ run'.tool = "content" =>
                /\ run'.p \in {run.p, run.p + 1}
                /\ \A m, n \in DOMAIN trace' : m < n => trace'[m].p <= trace'[n].p
                /\ \A n \in DOMAIN trace' : trace'[n].p <= run.p
                /\ run'.retrieved + run'.errors =
                      IF run'.pc = "done" THEN run'.p ELSE run'.p - 1
          /\ Exhausts =>
                /\ run'.errors = run.errors + 1 /\ run'.retrieved = run.retrieved
                /\ IF run.p < Len(paths)
                   THEN run'.pc = "lookup" /\ run'.p = run.p + 1 /\ run'.i = 1
                   ELSE run'.pc = "done"
          /\ Resolving => run.retrieved < run.req.limit
          /\ run'.tool = "content" /\ run'.retrieved = run.req.limit => run'.pc = "done"
          /\ Finish =>
                /\ ret'.ok
                /\ ret'.retrieved = run.retrieved /\ ret'.errors = run.errors
                /\ ret'.retrieved <= run.req.limit
                /\ ret'.retrieved + ret'.errors <= Len(paths)
    ]_vars

\* C34 witness: the first path was not found, the second was retrieved and
\* filled the limit of 1, and the third, though the site has it, was never
\* looked up.
C34_Witness ==
    /\ ret.op = "content" /\ ret.retrieved = 1 /\ ret.errors = 1
    /\ Site \o "/docs.json" \in DOMAIN origin
    /\ Site \o "/about.json" \notin DOMAIN origin
    /\ \A n \in DOMAIN trace : trace[n].p <= 2
    /\ \E n \in DOMAIN trace : trace[n].p = 2 /\ trace[n].op = "set"

----------------------------------------------------------------------------
\* Properties of the lazy eviction under concurrent use.

\* C35: the Delete that a Get makes for the expired entry it observed removes
\* that entry only: an unexpired entry another goroutine has stored under the
\* key in the meantime is still in the cache when the Get returns.
C35_EvictionRemovesObservedOnly ==
    [][ \A g \in Procs :
          LET c == calls[g] IN
          /\ ConcWrite(g) /\ c.op = "get"
          /\ c.key \in DOMAIN entries
          /\ entries[c.key] # c.entry /\ ~IsExpired(entries[c.key], now)
          => /\ c.key \in DOMAIN entries'
             /\ entries'[c.key] = entries[c.key]
    ]_vars

----------------------------------------------------------------------------
\* Properties of the keys that several tools compute.

\* The validators of the candidates stored under key k that the body passes:
\* the validators an entry with this body can have been stored under.
StoredUnder(k, b) ==
    { LoopCands[l][j].validator :
        <<l, j>> \in { <<l, j>> \in Loops \X (1..7) :
                        /\ j \in DOMAIN LoopCands[l]
                        /\ LoopCands[l][j].key = k
                        /\ Validate(LoopCands[l][j].validator, b, l[1].tax) } }

\* C36: a resolution deletes an unexpired entry only when the entry fails the
\* validator it was stored under; it never deletes an entry because the
\* validator of another query kind with the same key rejects it.
C36_DeleteOnlyOwnInvalid ==
    [][ \A k \in DOMAIN entries :
          /\ run.pc = "lookup"
          /\ k \notin DOMAIN entries'
          /\ ~IsExpired(entries[k], now)
          => StoredUnder(k, entries[k].Data) = {}
    ]_vars

----------------------------------------------------------------------------
\* Properties of the lock of the cache.

\* C37: concurrent calls of the cache never deadlock: a goroutine that asks
\* for the lock holds it in no mode; while a call is under way some goroutine
\* can take a step; and with a fair lock every call returns.
C37_NoDeadlock ==
    /\ [](\A g \in Procs :
            calls[g].pc \in {"rlock", "lock"} => g \notin mutex.r /\ mutex.w # g)
    /\ []((\E g \in Procs : calls[g].pc # "idle") =>
            \E g \in Procs :
               \/ calls[g].pc \in {"read", "check", "head", "write"}
               \/ calls[g].pc = "rlock" /\ CanRLock
               \/ calls[g].pc = "lock" /\ CanLock)
    /\ \A g \in Procs : calls[g].pc # "idle" ~> calls[g].pc = "idle"

\* C37 witness: one goroutine holds the write lock while the other, in a
\* Get that found its entry expired, waits for it.
C37_Witness ==
    /\ mutex.w = "g1"
    /\ calls["g2"].pc = "lock" /\ calls["g2"].op = "get"

----------------------------------------------------------------------------
\* Properties of Cache.Validate.

\* C38: Validate answers found for an unexpired entry without a request; for
\* an entry whose TTL has run out it answers found only when the origin
\* replied 304 Not Modified, and then CachedAt is reset so that a Get that
\* follows hits; after any other outcome of the conditional request, another
\* status or a failed request, the entry is gone and not-found is answered.
C38_ValidateNeedsConfirmation ==
    [][ \A k \in CacheKeys, outcome \in HeadOutcomes :
          CacheValidate(k, outcome) =>
             IF k \notin DOMAIN entries THEN ~ret'.ok /\ entries' = entries
             ELSE IF ~IsExpired(entries[k], now)
             THEN /\ ret'.ok /\ ret'.data = entries[k].Data
                  /\ ret'.cause = "none" /\ Len(trace') = 1
                  /\ entries' = entries
             ELSE IF outcome = "304"
             THEN /\ ret'.ok /\ ret'.data = entries[k].Data
                  /\ k \in DOMAIN entries' /\ entries'[k].CachedAt = now
                  /\ GetFound(entries', k, now)
             ELSE /\ ~ret'.ok
                  /\ k \notin DOMAIN entries'
    ]_vars

----------------------------------------------------------------------------
\* Properties of the options of a tool.

\* C39: whatever the order of the options, the tool holds the cache that the
\* last WithCache injected; a WithLogger applied after it does not put
\* another cache in its place.
C39_InjectedCacheKept ==
    ret # NoRet =>
       \A n \in DOMAIN trace :
          /\ trace[n].op = "WithCache"
          /\ \A m \in DOMAIN trace : m > n => trace[m].op # "WithCache"
          => ret.cache = trace[n].cache

====
